---- MODULE Spec2Model ----
(***************************************************************************)
(* Transactional lifecycle manager of sql-server-mcp: the transaction      *)
(* registry (TransactionManager), the version store (VersionManager), the  *)
(* draft -> deploy -> rollback workflow (SPDraftManager), the SQL          *)
(* validator, the write tool (executeQueryWrite) and the audit log         *)
(* (AuditLogger), over an abstract SQL Server and an abstract file system. *)
(*                                                                         *)
(* SQL text is a sequence of tokens (strings).  Whitespace separates       *)
(* tokens; a schema qualifier "dbo." is one token; "--" opens a comment    *)
(* that runs to the token "NL".  The empty sequence stands for null / ''.  *)
(***************************************************************************)
EXTENDS Integers, Sequences, FiniteSets, TLC

\* ------------------------------------------------------------------ bounds
MaxTxns == 3
MaxOps == 5
MaxOverlap == 1
MaxQueries == 1
MaxClock == 7
maxVersions == 2
maxRowsAffected == 1
bufferSize == 2
MaxEntries == 3
MaxLen == 3
MaxStatements == 2
MaxSuffix == 1
MaxPeriods == 1

\* ------------------------------------------------------- program constants
\* one unit of time is the sweep period, 60000 ms
TRANSACTION_TIMEOUT == 5
SWEEP_INTERVAL == 1
\* the defaults of the virtual filesystem: cache on, entries kept 300000 ms
enableCache == TRUE
cacheTimeout == 5

draftSchema == "dbo_draft"
NULL == <<>>

Procs == {"c1", "c2"}
Names == {"P"}
Schemas == {"dbo", draftSchema}
Keys == Schemas \X Names

\* ---------------------------------------------------------------- SQL text
Qual(schema) == IF schema = "dbo" THEN "dbo." ELSE "dbo_draft."
Qualifiers == {"dbo.", "dbo_draft."}
SchemaOf(q) == IF q = "dbo." THEN "dbo" ELSE draftSchema

\* the regular expressions of the source carry the i flag, and isWriteQuery
\* compares in upper case: the upper-case form of each token that is not
\* written in upper case already
Upper(t) ==
  CASE t = "create" -> "CREATE"
    [] t = "procedure" -> "PROCEDURE"
    [] t = "select" -> "SELECT"
    [] t = "insert" -> "INSERT"
    [] t = "Update" -> "UPDATE"
    [] t = "delete" -> "DELETE"
    [] t = "truncate" -> "TRUNCATE"
    [] t = "drop" -> "DROP"
    [] t = "Database" -> "DATABASE"
    [] t = "databases" -> "DATABASES"
    [] t = "xp_cmdshell" -> "XP_CMDSHELL"
    [] t = "exec" -> "EXEC"
    [] OTHER -> t

\* \w+ : a run of word characters
IsWord(t) == t \notin (Qualifiers \cup {"--", "NL", ";", "(", "="})

DefA == <<"CREATE", "PROCEDURE", "dbo.", "P", "AS", "A">>
DefB == <<"ALTER", "PROCEDURE", "P", "AS", "B">>
DefHdr == <<"--", "create", "procedure", "old", "NL",
            "CREATE", "PROCEDURE", "dbo.", "P", "AS", "C">>
DefSel == <<"SELECT", "1">>
DefBad == <<"CREATE", "PROCEDURE", "dbo.", "P", "AS", "EXEC", "xp_cmdshell">>
DefCmt == <<"SELECT", "1", "--", "create", "procedure", "old">>
Definitions == {DefA, DefB, DefHdr, DefSel, DefBad, DefCmt}

\* does pat occur in sql at position i (case-insensitive)
OccursAt(sql, pat, i) ==
  /\ i + Len(pat) - 1 <= Len(sql)
  /\ \A k \in 1..Len(pat) : Upper(sql[i + k - 1]) = Upper(pat[k])

Contains(sql, pat) == \E i \in 1..Len(sql) : OccursAt(sql, pat, i)

\* SQLValidator ------------------------------------------------------------
\* config.security.blockedKeywords
Keywords == << <<"DROP", "DATABASE">>, <<"xp_cmdshell">> >>

\* new RegExp(`\\b${keyword}\\b`, 'i'): the pattern and its source text
RegExp(keyword) == [pattern |-> keyword, source |-> <<"\\b">> \o keyword \o <<"\\b">>]

blockedKeywords == [i \in 1..Len(Keywords) |-> RegExp(Keywords[i])]

containsSuspiciousPattern(sql) ==
  \/ Contains(sql, <<";", "DROP">>)
  \/ Contains(sql, <<";", "DELETE">>)
  \/ Contains(sql, <<"EXEC", "(">>)
  \/ Contains(sql, <<"xp_cmdshell">>)
  \/ Contains(sql, <<"sp_executesql">>)
  \/ \E i \in 1..Len(sql) :
       /\ sql[i] = "'"
       /\ \E j \in (i + 1)..Len(sql) :
            /\ Upper(sql[j]) = "OR"
            /\ \E k \in (j + 1)..Len(sql) :
                 sql[k] = "'" /\ \E l \in (k + 1)..Len(sql) : sql[l] = "="

containsUnsafeDynamicSQL(sql) ==
  \/ Contains(sql, <<"EXEC", "(", "@sql">>)
  \/ Contains(sql, <<"EXECUTE", "(", "@sql">>)
  \/ Contains(sql, <<"EXEC", "@sql">>)
  \/ Contains(sql, <<"EXECUTE", "@sql">>)

validate(sql) ==
  LET blocked == SelectSeq(blockedKeywords, LAMBDA re : Contains(sql, re.pattern))
      e1 == [i \in 1..Len(blocked) |-> <<"Blocked keyword found", blocked[i].source>>]
      e2 == IF containsSuspiciousPattern(sql)
            THEN << <<"SQL contains suspicious patterns", <<>> >> >> ELSE <<>>
      e3 == IF containsUnsafeDynamicSQL(sql)
            THEN << <<"Unsafe dynamic SQL detected", <<>> >> >> ELSE <<>>
      errors == e1 \o e2 \o e3
  IN [valid |-> Len(errors) = 0, errors |-> errors]

\* SPDraftManager: text helpers ---------------------------------------------
isProcedureDefinition(sql) ==
  \/ Contains(sql, <<"CREATE", "PROCEDURE">>)
  \/ Contains(sql, <<"ALTER", "PROCEDURE">>)

\* length of the match of
\*   (?:CREATE|ALTER)\s+PROCEDURE\s+(?:\[?\w+\]?\.)?(\[?\w+\]?)
\* at position i, 0 when there is none
DefiningClauseAt(sql, i) ==
  IF /\ i + 2 <= Len(sql)
     /\ Upper(sql[i]) \in {"CREATE", "ALTER"}
     /\ Upper(sql[i + 1]) = "PROCEDURE"
  THEN IF sql[i + 2] \in Qualifiers /\ i + 3 <= Len(sql) /\ IsWord(sql[i + 3])
       THEN 4
       ELSE IF IsWord(sql[i + 2]) THEN 3 ELSE 0
  ELSE 0

FirstClause(sql) ==
  LET hits == {i \in 1..Len(sql) : DefiningClauseAt(sql, i) > 0}
  IN IF hits = {} THEN 0 ELSE CHOOSE i \in hits : \A j \in hits : i <= j

rewriteForDraftSchema(definition, schema, name) ==
  LET i == FirstClause(definition)
  IN IF i = 0 THEN definition
     ELSE SubSeq(definition, 1, i - 1)
          \o <<"CREATE", "PROCEDURE", Qual(draftSchema), name>>
          \o SubSeq(definition, i + DefiningClauseAt(definition, i), Len(definition))

FirstCreate(sql) ==
  LET hits == {i \in 1..Len(sql) : OccursAt(sql, <<"CREATE", "PROCEDURE">>, i)}
  IN IF hits = {} THEN 0 ELSE CHOOSE i \in hits : \A j \in hits : i <= j

rewriteForProductionSchema(definition, schema, name) ==
  LET swapped == [i \in 1..Len(definition) |->
                    IF definition[i] = Qual(draftSchema) THEN Qual(schema)
                    ELSE definition[i]]
      c == FirstCreate(swapped)
  IN IF c = 0 THEN swapped
     ELSE [i \in 1..Len(swapped) |->
             IF i = c THEN "CREATE" ELSE IF i = c + 1 THEN "PROCEDURE" ELSE swapped[i]]

\* ------------------------------------------------------------- SQL Server
\* the batch with its comments removed
RECURSIVE StripComments(_, _)
StripComments(sql, inComment) ==
  IF sql = <<>> THEN <<>>
  ELSE IF inComment
       THEN StripComments(Tail(sql), Head(sql) # "NL")
       ELSE IF Head(sql) = "--" THEN StripComments(Tail(sql), TRUE)
            ELSE IF Head(sql) = "NL" THEN StripComments(Tail(sql), FALSE)
                 ELSE <<Head(sql)>> \o StripComments(Tail(sql), FALSE)

\* what a batch does to the catalog: kind, and the routine it names; a batch
\* of one word calls the procedure of that name
Statement(text) ==
  LET s == StripComments(text, FALSE)
      verb == IF Len(s) >= 3 /\ Upper(s[2]) = "PROCEDURE" THEN Upper(s[1]) ELSE "OTHER"
      qualified == Len(s) >= 4 /\ s[3] \in Qualifiers
      key == IF qualified THEN <<SchemaOf(s[3]), s[4]>>
             ELSE IF Len(s) >= 3 THEN <<"dbo", s[3]>> ELSE <<"dbo", "">>
      guarded == Len(s) >= 6 /\ s[1] = "IF" /\ s[2] = "EXISTS"
                   /\ s[3] = "DROP" /\ s[4] = "PROCEDURE"
  IN IF guarded THEN [kind |-> "DROPIF", key |-> <<SchemaOf(s[5]), s[6]>>]
     ELSE IF Len(s) = 1 THEN [kind |-> "EXEC", key |-> <<"dbo", s[1]>>]
     ELSE [kind |-> IF verb \in {"CREATE", "ALTER", "DROP"} THEN verb ELSE "OTHER",
           key |-> key]

\* the batch run against a catalog: does it succeed, and the catalog afterwards
Run(catalog, text) ==
  LET st == Statement(text)
      there == st.key \in Keys /\ catalog[st.key] # NULL
  IN CASE st.kind = "CREATE" ->
            [ok |-> st.key \in Keys /\ ~there,
             catalog |-> IF st.key \in Keys /\ ~there
                         THEN [catalog EXCEPT ![st.key] = text] ELSE catalog]
       [] st.kind = "ALTER" ->
            [ok |-> there,
             catalog |-> IF there THEN [catalog EXCEPT ![st.key] = text] ELSE catalog]
       [] st.kind = "DROP" ->
            [ok |-> there,
             catalog |-> IF there THEN [catalog EXCEPT ![st.key] = NULL] ELSE catalog]
       [] st.kind = "DROPIF" ->
            [ok |-> TRUE,
             catalog |-> IF there THEN [catalog EXCEPT ![st.key] = NULL] ELSE catalog]
       [] st.kind = "EXEC" -> [ok |-> there, catalog |-> catalog]
       [] OTHER -> [ok |-> TRUE, catalog |-> catalog]

\* the routines a batch writes
Touches(text) ==
  LET st == Statement(text)
  IN IF st.kind \notin {"OTHER", "EXEC"} /\ st.key \in Keys THEN {st.key} ELSE {}

dropQuery(schema, name) == <<"IF", "EXISTS", "DROP", "PROCEDURE", Qual(schema), name>>

\* ------------------------------------------------------------------ state
VARIABLES
  db,                  \* SQL Server: committed definition of each routine
  tableExists,         \* SQL Server: dbo.SPVersionHistory has been created
  SPVersionHistory,    \* SQL Server: its rows, in insertion (Id) order
  versionTableExists,  \* VersionManager.versionTableExists
  activeTransactions,  \* TransactionManager.activeTransactions
  sqlTxn,              \* the sql.Transaction behind each id
  nextId,              \* ids handed out so far, plus one
  now,                 \* Date.now(), in sweep periods
  forced,              \* ids whose rollback by the sweep is awaiting the engine
  pc,                  \* per caller: the await it is suspended at
  loc,                 \* per caller: arguments and locals of the running call;
                       \* fault: a request of the call failed that could have been served;
                       \* gone, raced: what the call met, no open transaction or
                       \* one that a commit or rollback was in progress on
  opCount,             \* calls started
  overlap,             \* calls that may still start while another call is running
  log,                 \* history of finished deployDraft / rollback calls
  buffer,              \* AuditLogger.buffer
  writing,             \* batches handed to fs.appendFile and not answered yet
  logFile,             \* the audit file: entries appended so far
  flushInterval,       \* AuditLogger.flushInterval is armed
  logged,              \* entries passed to AuditLogger.log so far
  cache                \* FileCache.cache of the virtual filesystem

auditVars == <<buffer, writing, logFile, flushInterval, logged>>

vars == <<db, tableExists, SPVersionHistory, versionTableExists, activeTransactions,
          sqlTxn, nextId, now, forced, pc, loc, opCount, overlap, log,
          buffer, writing, logFile, flushInterval, logged, cache>>

Ids == 1..MaxTxns
EmptyCatalog == [k \in Keys |-> NULL]
\* ending: a caller has asked for the commit or the rollback of the transaction
NoTxn ==
  [status |-> "none", busy |-> "no", ending |-> FALSE, touched |-> {},
   writes |-> EmptyCatalog]
NoRow == [Version |-> 0, Definition |-> NULL]
UNDEFINED == <<"undefined">>
\* FileCache: no entry under the key
NoEntry == [data |-> NULL, timestamp |-> 0]

prodKey(schema, name) == <<schema, name>>
draftKey(name) == <<draftSchema, name>>

L0 ==
  [op |-> "none", schema |-> "dbo", name |-> "P", definition |-> NULL, version |-> 0,
   draftDefinition |-> NULL, currentDefinition |-> NULL, nextVersion |-> 0,
   versionToRestore |-> NoRow, txnId |-> 0, query |-> NULL, rejected |-> FALSE,
   error |-> "none", result |-> "none", failedAt |-> "none", cleanup |-> "none",
   committed |-> FALSE, issued |-> FALSE, gone |-> FALSE, raced |-> FALSE,
   fault |-> FALSE, auto |-> FALSE, rowsAffected |-> 0, reasons |-> <<>>,
   entries |-> <<>>, batch |-> <<>>, flushed |-> "none", executed |-> FALSE,
   write |-> FALSE, versions |-> <<>>,
   preDb |-> EmptyCatalog, preRows |-> <<>>]

Fresh ==
  /\ db = EmptyCatalog
  /\ tableExists = FALSE
  /\ SPVersionHistory = <<>>
  /\ versionTableExists = FALSE
  /\ activeTransactions = <<>>
  /\ sqlTxn = [i \in Ids |-> NoTxn]
  /\ nextId = 1
  /\ now = 0
  /\ forced = {}
  /\ pc = [p \in Procs |-> "idle"]
  /\ opCount = 0
  /\ log = <<>>
  /\ buffer = <<>>
  /\ writing = {}
  /\ cache = [k \in Keys |-> NoEntry]
  /\ logFile = <<>>
  /\ flushInterval = TRUE
  /\ logged = 0

Start == Fresh /\ loc = [p \in Procs |-> L0]

Init == Start /\ overlap = MaxOverlap

\* one caller at a time
InitSeq == Start /\ overlap = 0

\* ------------------------------------------------- SQL Server: transactions
\* a routine written by an open transaction is locked against everyone else
Locked(st, key, me) ==
  \E i \in Ids : i # me /\ st[i].status = "open" /\ key \in st[i].touched

View(st, id) == [k \in Keys |-> IF k \in st[id].touched THEN st[id].writes[k] ELSE db[k]]

\* the driver serves one request at a time on a transaction that has begun
CanServe(st, id) == st[id].status = "open" /\ st[id].busy = "no"
IssueReq(st, id, kind) ==
  [st EXCEPT ![id].busy = IF CanServe(st, id) THEN kind ELSE @,
             ![id].ending = @ \/ kind \in {"commit", "rollback"}]

\* a statement inside transaction id can be carried out
CanRunIn(st, id, text) ==
  /\ \A k \in Touches(text) : ~Locked(st, k, id)
  /\ Run(View(st, id), text).ok

Written(st, id, text) ==
  [st EXCEPT ![id].touched = @ \cup Touches(text),
             ![id].writes = Run(View(st, id), text).catalog]

Idle(st, id) == [st EXCEPT ![id].busy = "no"]

\* COMMIT: the writes of the transaction become the committed definitions
Committed(st, id) == [k \in Keys |-> View(st, id)[k]]

\* a statement outside any transaction (autocommit) can be carried out
CanRun(text) == \A k \in Touches(text) : ~Locked(sqlTxn, k, 0)

\* ---------------------------------------------------------- VersionManager
RowsOf(rows, schema, name) ==
  SelectSeq(rows, LAMBDA r : r.SchemaName = schema /\ r.ProcedureName = name)

VersionsOf(rows, schema, name) ==
  {RowsOf(rows, schema, name)[i].Version : i \in 1..Len(RowsOf(rows, schema, name))}

MaxOf(S) == IF S = {} THEN 0 ELSE CHOOSE m \in S : \A x \in S : x <= m

\* a numbering by the count of the stored rows
NextVersionByCount(rows, schema, name) == Len(RowsOf(rows, schema, name)) + 1

\* SELECT ISNULL(MAX(Version), 0) + 1
NextVersion(rows, schema, name) == MaxOf(VersionsOf(rows, schema, name)) + 1

\* the Version values of the first n rows in ORDER BY Version DESC
RECURSIVE TopVersions(_, _)
TopVersions(rows, n) ==
  IF n = 0 \/ rows = <<>> THEN {}
  ELSE LET m == MaxOf({rows[i].Version : i \in 1..Len(rows)})
           i == CHOOSE j \in 1..Len(rows) : rows[j].Version = m
           rest == SubSeq(rows, 1, i - 1) \o SubSeq(rows, i + 1, Len(rows))
       IN {m} \cup TopVersions(rest, n - 1)

cleanupOldVersions(rows, schema, name) ==
  LET keep == TopVersions(RowsOf(rows, schema, name), maxVersions)
  IN SelectSeq(rows, LAMBDA r :
       ~(r.SchemaName = schema /\ r.ProcedureName = name) \/ r.Version \in keep)

\* the property of a result row that SPDraftManager.rollback reads
definitionOf(row) ==
  IF "definition" \in DOMAIN row THEN row["definition"] ELSE UNDEFINED

\* ------------------------------------------------------------ call frames
Quiet(p) == \A q \in Procs \ {p} : pc[q] = "idle"

\* callers are interchangeable: the next call is made by a fixed idle one
Ready(p) ==
  /\ pc[p] = "idle"
  /\ p = CHOOSE q \in Procs : pc[q] = "idle"
  /\ \A q \in Procs : pc[q] # "done"
  /\ opCount < MaxOps
  /\ Quiet(p) \/ overlap > 0

Begin(p, L, label) ==
  /\ pc' = [pc EXCEPT ![p] = label]
  /\ loc' = [loc EXCEPT ![p] = [L EXCEPT !.preDb = db, !.preRows = SPVersionHistory]]
  /\ opCount' = opCount + 1
  /\ overlap' = IF Quiet(p) THEN overlap ELSE overlap - 1
  /\ log' = log
  /\ UNCHANGED <<auditVars, cache>>

Suspend(p, L, label) ==
  /\ pc' = [pc EXCEPT ![p] = label]
  /\ loc' = [loc EXCEPT ![p] = L]
  /\ log' = log
  /\ UNCHANGED <<auditVars, cache>>

\* the call returns (result "ok") or throws (the kind of the error)
Finish(p, L, result, newDb) ==
  /\ pc' = [pc EXCEPT ![p] = "done"]
  /\ loc' = [loc EXCEPT ![p] = [L EXCEPT !.result = result]]
  /\ log' = IF L.op \in {"deployDraft", "rollback"}
            THEN Append(log, [op |-> L.op, result |-> result, version |-> L.version,
                              fault |-> L.fault,
                              before |-> L.preDb[prodKey(L.schema, L.name)],
                              after |-> newDb[prodKey(L.schema, L.name)]])
            ELSE log
  /\ UNCHANGED <<auditVars, cache>>

\* the caller has seen the outcome; its frame is gone
Return(p) ==
  /\ pc[p] = "done"
  /\ pc' = [pc EXCEPT ![p] = "idle"]
  /\ loc' = [loc EXCEPT ![p] = L0]
  /\ UNCHANGED <<db, tableExists, SPVersionHistory, versionTableExists,
                 activeTransactions, sqlTxn, nextId, now, forced, opCount, overlap, log,
                 auditVars, cache>>

\* ----------------------------------------------- SPDraftManager.createDraft
createDraft(p, definition) ==
  /\ Ready(p)
  /\ Begin(p, [L0 EXCEPT !.op = "createDraft", !.definition = definition],
           "createDraft_ensureDraftSchema")
  /\ UNCHANGED <<db, tableExists, SPVersionHistory, versionTableExists,
                 activeTransactions, sqlTxn, nextId, now, forced>>

\* after ensureDraftSchema: validate, isProcedureDefinition, rewrite, issue the drop
createDraft_validate(p) ==
  /\ pc[p] = "createDraft_ensureDraftSchema"
  /\ \E ok \in BOOLEAN :
       LET L == loc[p] IN
       IF ~ok THEN Finish(p, L, "EngineError", db)
       ELSE IF ~validate(L.definition).valid THEN Finish(p, L, "ValidationError", db)
       ELSE IF ~isProcedureDefinition(L.definition)
            THEN Finish(p, L, "ValidationError", db)
       ELSE Suspend(p, [L EXCEPT !.draftDefinition =
                            rewriteForDraftSchema(L.definition, L.schema, L.name),
                          !.query = dropQuery(draftSchema, L.name)],
                    "createDraft_drop")
  /\ UNCHANGED <<db, tableExists, SPVersionHistory, versionTableExists,
                 activeTransactions, sqlTxn, nextId, now, forced, opCount, overlap>>

\* after the drop of the old draft: issue the create
createDraft_drop(p) ==
  /\ pc[p] = "createDraft_drop"
  /\ \E ok \in BOOLEAN :
       LET L == loc[p] IN
       /\ ok => CanRun(L.query)
       /\ IF ok
          THEN /\ db' = Run(db, L.query).catalog
               /\ Suspend(p, [L EXCEPT !.query = L.draftDefinition], "createDraft_create")
          ELSE /\ db' = db
               /\ Finish(p, L, "EngineError", db)
  /\ UNCHANGED <<tableExists, SPVersionHistory, versionTableExists,
                 activeTransactions, sqlTxn, nextId, now, forced, opCount, overlap>>

createDraft_create(p) ==
  /\ pc[p] = "createDraft_create"
  /\ \E ok \in BOOLEAN :
       LET L == loc[p] IN
       /\ ok => CanRun(L.query) /\ Run(db, L.query).ok
       /\ IF ok
          THEN /\ db' = Run(db, L.query).catalog
               /\ Finish(p, L, "ok", Run(db, L.query).catalog)
          ELSE /\ db' = db
               /\ Finish(p, L, "EngineError", db)
  /\ UNCHANGED <<tableExists, SPVersionHistory, versionTableExists,
                 activeTransactions, sqlTxn, nextId, now, forced, opCount, overlap>>

\* ------------------------------------------- TransactionManager, as called
Removed(reg, id) == [i \in DOMAIN reg \ {id} |-> reg[i]]

\* a list that takes the new text at its front
TrackedFirst(reg, id, query) ==
  IF id \in DOMAIN reg THEN [reg EXCEPT ![id].queries = <<query>> \o @] ELSE reg

\* txn.queries.push(query)
Tracked(reg, id, query) ==
  IF id \in DOMAIN reg THEN [reg EXCEPT ![id].queries = Append(@, query)] ELSE reg

Ended(st, id, status) == [st EXCEPT ![id] = [NoTxn EXCEPT !.status = status]]

\* a catch block that rethrows without rolling the transaction back
CatchRethrow(p, L, st, reg, newDb) ==
  /\ sqlTxn' = st
  /\ Finish(p, L, L.error, newDb)

\* catch (error) { await this.transactionManager.rollback(txnId); throw error; }
\* up to the await: rollback looks the id up and hands ROLLBACK to the driver
Catch(p, L, st, reg, newDb) ==
  IF L.txnId \notin DOMAIN reg
  THEN /\ sqlTxn' = st
       /\ Finish(p, [L EXCEPT !.cleanup = "notfound"], "NotFound", newDb)
  ELSE /\ sqlTxn' = IssueReq(st, L.txnId, "rollback")
       /\ Suspend(p, [L EXCEPT !.rejected = ~CanServe(st, L.txnId),
                               !.cleanup = "issued"], "swap_rollback")

\* a call of execute or commit inside the try block, up to its await
Try(p, L, st, reg, kind, label, step, newDb) ==
  IF L.txnId \notin DOMAIN reg
  THEN Catch(p, [L EXCEPT !.error = "NotFound", !.failedAt = step], st, reg, newDb)
  ELSE /\ sqlTxn' = IssueReq(st, L.txnId, kind)
       /\ Suspend(p, [L EXCEPT !.rejected = ~CanServe(st, L.txnId)], label)

\* ----------------------------------------------- SPDraftManager.deployDraft
deployDraft(p) ==
  /\ Ready(p)
  /\ Begin(p, [L0 EXCEPT !.op = "deployDraft"], "deployDraft_getDraftDefinition")
  /\ UNCHANGED <<db, tableExists, SPVersionHistory, versionTableExists,
                 activeTransactions, sqlTxn, nextId, now, forced>>

\* getDraftDefinition / getCurrentDefinition: a failed read is answered with null
getDefinition(key, ok) == IF ok THEN db[key] ELSE NULL

\* a deployDraft that goes on without looking at what the read returned
deployDraft_getDraftUnchecked(p) ==
  /\ pc[p] = "deployDraft_getDraftDefinition"
  /\ \E ok \in BOOLEAN :
       LET L == loc[p]
           v == getDefinition(draftKey(L.name), ok)
       IN /\ ok => ~Locked(sqlTxn, draftKey(L.name), 0)
          /\ Suspend(p, [L EXCEPT !.draftDefinition = v],
                     "deployDraft_getCurrentDefinition")
  /\ UNCHANGED <<db, tableExists, SPVersionHistory, versionTableExists,
                 activeTransactions, sqlTxn, nextId, now, forced, opCount, overlap>>

deployDraft_getDraftDefinition(p) ==
  /\ pc[p] = "deployDraft_getDraftDefinition"
  /\ \E ok \in BOOLEAN :
       LET L == loc[p]
           v == getDefinition(draftKey(L.name), ok)
       IN /\ ok => ~Locked(sqlTxn, draftKey(L.name), 0)
          /\ IF v = NULL THEN Finish(p, L, "NotFound", db)
             ELSE Suspend(p, [L EXCEPT !.draftDefinition = v],
                          "deployDraft_getCurrentDefinition")
  /\ UNCHANGED <<db, tableExists, SPVersionHistory, versionTableExists,
                 activeTransactions, sqlTxn, nextId, now, forced, opCount, overlap>>

\* the backup is taken only when the read returned a definition
deployDraft_getCurrentDefinition(p) ==
  /\ pc[p] = "deployDraft_getCurrentDefinition"
  /\ \E ok \in BOOLEAN :
       LET L == loc[p]
           v == getDefinition(prodKey(L.schema, L.name), ok)
       IN /\ ok => ~Locked(sqlTxn, prodKey(L.schema, L.name), 0)
          /\ Suspend(p, [L EXCEPT !.currentDefinition = v],
                     IF v = NULL THEN "swap_begin"
                     ELSE IF versionTableExists THEN "saveVersion_nextVersion"
                          ELSE "saveVersion_ensureVersionTable")
  /\ UNCHANGED <<db, tableExists, SPVersionHistory, versionTableExists,
                 activeTransactions, sqlTxn, nextId, now, forced, opCount, overlap>>

\* ------------------------------------------------ VersionManager.saveVersion
\* routines whose versions are stored
VersionedNames == {"P", "Q"}

\* saveVersion called on its own
saveVersion(p, name, definition) ==
  /\ Ready(p)
  /\ Begin(p, [L0 EXCEPT !.op = "saveVersion", !.name = name,
                         !.currentDefinition = definition],
           IF versionTableExists THEN "saveVersion_nextVersion"
           ELSE "saveVersion_ensureVersionTable")
  /\ UNCHANGED <<db, tableExists, SPVersionHistory, versionTableExists,
                 activeTransactions, sqlTxn, nextId, now, forced>>

\* return nextVersion
Saved(p, L) ==
  /\ pc' = [pc EXCEPT ![p] = "done"]
  /\ loc' = [loc EXCEPT ![p] = [L EXCEPT !.result = "ok"]]
  /\ log' = Append(log, [op |-> L.op, name |-> L.name, version |-> L.nextVersion])
  /\ UNCHANGED <<auditVars, cache>>

ensureVersionTable(p) ==
  /\ pc[p] = "saveVersion_ensureVersionTable"
  /\ \E ok \in BOOLEAN :
       IF ok
       THEN /\ tableExists' = TRUE
            /\ versionTableExists' = TRUE
            /\ Suspend(p, loc[p], "saveVersion_nextVersion")
       ELSE /\ UNCHANGED <<tableExists, versionTableExists>>
            /\ Finish(p, loc[p], "EngineError", db)
  /\ UNCHANGED <<db, SPVersionHistory, activeTransactions, sqlTxn, nextId, now, forced,
                 opCount, overlap>>

saveVersion_nextVersion(p) ==
  /\ pc[p] = "saveVersion_nextVersion"
  /\ \E ok \in BOOLEAN :
       LET L == loc[p] IN
       /\ ok => tableExists
       /\ IF ok
          THEN Suspend(p, [L EXCEPT !.nextVersion =
                               NextVersion(SPVersionHistory, L.schema, L.name)],
                       "saveVersion_insert")
          ELSE Finish(p, L, "EngineError", db)
  /\ UNCHANGED <<db, tableExists, SPVersionHistory, versionTableExists,
                 activeTransactions, sqlTxn, nextId, now, forced, opCount, overlap>>

saveVersion_insert(p) ==
  /\ pc[p] = "saveVersion_insert"
  /\ \E ok \in BOOLEAN :
       LET L == loc[p] IN
       /\ ok => tableExists
       /\ IF ok
          THEN /\ SPVersionHistory' =
                    Append(SPVersionHistory,
                           [SchemaName |-> L.schema, ProcedureName |-> L.name,
                            Version |-> L.nextVersion, Definition |-> L.currentDefinition])
               /\ Suspend(p, L, "saveVersion_cleanup")
          ELSE /\ SPVersionHistory' = SPVersionHistory
               /\ Finish(p, L, "EngineError", db)
  /\ UNCHANGED <<db, tableExists, versionTableExists,
                 activeTransactions, sqlTxn, nextId, now, forced, opCount, overlap>>

\* after cleanupOldVersions saveVersion returns, and deployDraft goes on to begin
saveVersion_cleanup(p) ==
  /\ pc[p] = "saveVersion_cleanup"
  /\ \E ok \in BOOLEAN :
       LET L == loc[p] IN
       /\ ok => tableExists
       /\ IF ok
          THEN /\ SPVersionHistory' = cleanupOldVersions(SPVersionHistory, L.schema, L.name)
               /\ IF L.op = "saveVersion" THEN Saved(p, L)
                  ELSE Suspend(p, L, "swap_begin")
          ELSE /\ SPVersionHistory' = SPVersionHistory
               /\ Finish(p, L, "EngineError", db)
  /\ UNCHANGED <<db, tableExists, versionTableExists,
                 activeTransactions, sqlTxn, nextId, now, forced, opCount, overlap>>

\* ------------------------------- the swap transaction of deployDraft/rollback
\* the statement that recreates the routine
SecondStatement(L) ==
  IF L.op = "deployDraft"
  THEN rewriteForProductionSchema(L.draftDefinition, L.schema, L.name)
  ELSE definitionOf(L.versionToRestore)

\* TransactionManager.begin, then execute(txnId, dropQuery) up to its await
swap_begin(p) ==
  /\ pc[p] = "swap_begin"
  /\ \E ok \in BOOLEAN :
       LET L == loc[p] IN
       /\ ok => nextId <= MaxTxns
       /\ IF ok
          THEN /\ nextId' = nextId + 1
               /\ activeTransactions' =
                    activeTransactions @@ (nextId :> [startTime |-> now, queries |-> <<>>])
               /\ sqlTxn' = [sqlTxn EXCEPT ![nextId] =
                               [NoTxn EXCEPT !.status = "open", !.busy = "execute"]]
               /\ Suspend(p, [L EXCEPT !.txnId = nextId, !.rejected = FALSE,
                                       !.query = dropQuery(L.schema, L.name)],
                          "swap_drop")
          ELSE /\ UNCHANGED <<nextId, activeTransactions, sqlTxn>>
               /\ Finish(p, [L EXCEPT !.fault = TRUE], "EngineError", db)
  /\ UNCHANGED <<db, tableExists, SPVersionHistory, versionTableExists, now, forced,
                 opCount, overlap>>

\* a statement of the swap has been answered: on success the next call of the
\* try block is made, on failure the catch block runs
swap_execute(p, here, nextQuery, kind, label) ==
  /\ pc[p] = here
  /\ \E ok \in BOOLEAN :
       LET L == loc[p]
           id == L.txnId
           st0 == IF L.rejected THEN sqlTxn ELSE Idle(sqlTxn, id)
       IN /\ ok => ~L.rejected /\ CanRunIn(sqlTxn, id, L.query)
          /\ IF ok
             THEN /\ activeTransactions' = Tracked(activeTransactions, id, L.query)
                  /\ Try(p, [L EXCEPT !.query = nextQuery], Idle(Written(sqlTxn, id, L.query), id),
                         activeTransactions, kind, label, here, db)
             ELSE /\ activeTransactions' = activeTransactions
                  /\ Catch(p, [L EXCEPT !.error = "EngineError", !.failedAt = here,
                                        !.fault = CanRunIn(sqlTxn, id, L.query)],
                           st0, activeTransactions, db)
  /\ UNCHANGED <<db, tableExists, SPVersionHistory, versionTableExists, nextId, now,
                 forced, opCount, overlap>>

swap_drop(p) ==
  swap_execute(p, "swap_drop", SecondStatement(loc[p]), "execute", "swap_create")

swap_create(p) == swap_execute(p, "swap_create", NULL, "commit", "swap_commit")

\* commit answered: on success deployDraft deletes the draft, rollback returns
swap_commit(p) ==
  /\ pc[p] = "swap_commit"
  /\ \E ok \in BOOLEAN :
       LET L == loc[p]
           id == L.txnId
           st0 == IF L.rejected THEN sqlTxn ELSE Idle(sqlTxn, id)
           L1 == [L EXCEPT !.committed = TRUE, !.query = dropQuery(draftSchema, L.name)]
       IN /\ ok => ~L.rejected
          /\ IF ok
             THEN /\ db' = Committed(sqlTxn, id)
                  /\ sqlTxn' = Ended(sqlTxn, id, "committed")
                  /\ activeTransactions' = Removed(activeTransactions, id)
                  /\ IF L.op = "deployDraft"
                     THEN Suspend(p, L1, "deployDraft_deleteDraft")
                     ELSE Finish(p, L1, "ok", Committed(sqlTxn, id))
             ELSE /\ db' = db
                  /\ activeTransactions' = activeTransactions
                  /\ Catch(p, [L EXCEPT !.error = "EngineError", !.failedAt = "swap_commit",
                                        !.fault = TRUE],
                           st0, activeTransactions, db)
  /\ UNCHANGED <<tableExists, SPVersionHistory, versionTableExists, nextId, now,
                 forced, opCount, overlap>>

deployDraft_deleteDraft(p) ==
  /\ pc[p] = "deployDraft_deleteDraft"
  /\ \E ok \in BOOLEAN :
       LET L == loc[p] IN
       /\ ok => CanRun(L.query)
       /\ IF ok
          THEN /\ db' = Run(db, L.query).catalog
               /\ sqlTxn' = sqlTxn
               /\ Finish(p, L, "ok", Run(db, L.query).catalog)
          ELSE /\ db' = db
               /\ Catch(p, [L EXCEPT !.error = "EngineError",
                                     !.failedAt = "deployDraft_deleteDraft"],
                        sqlTxn, activeTransactions, db)
  /\ UNCHANGED <<tableExists, SPVersionHistory, versionTableExists, activeTransactions,
                 nextId, now, forced, opCount, overlap>>

\* the rollback of the catch block answered: the caught error is rethrown, unless
\* the rollback itself threw
swap_rollback(p) ==
  /\ pc[p] = "swap_rollback"
  /\ \E ok \in BOOLEAN :
       LET L == loc[p]
           id == L.txnId
       IN /\ ok => ~L.rejected
          /\ IF ok
             THEN /\ sqlTxn' = Ended(sqlTxn, id, "rolledback")
                  /\ activeTransactions' = Removed(activeTransactions, id)
                  /\ Finish(p, [L EXCEPT !.cleanup = "rolledback"], L.error, db)
             ELSE /\ sqlTxn' = IF L.rejected THEN sqlTxn ELSE Idle(sqlTxn, id)
                  /\ activeTransactions' = activeTransactions
                  /\ Finish(p, [L EXCEPT !.cleanup = "failed", !.fault = TRUE],
                            "EngineError", db)
  /\ UNCHANGED <<db, tableExists, SPVersionHistory, versionTableExists, nextId, now,
                 forced, opCount, overlap>>

\* -------------------------------------------------- SPDraftManager.rollback
rollback(p, version) ==
  /\ Ready(p)
  /\ Begin(p, [L0 EXCEPT !.op = "rollback", !.version = version], "rollback_getVersion")
  /\ UNCHANGED <<db, tableExists, SPVersionHistory, versionTableExists,
                 activeTransactions, sqlTxn, nextId, now, forced>>

ResultRow(r) == [Version |-> r.Version, Definition |-> r.Definition]

\* getVersion: WHERE Version = @version
getVersion(rows, schema, name, version) ==
  {ResultRow(RowsOf(rows, schema, name)[i]) :
     i \in {j \in 1..Len(RowsOf(rows, schema, name)) :
              RowsOf(rows, schema, name)[j].Version = version}}

\* getLatestVersion: TOP 1 ... ORDER BY Version DESC
getLatestVersion(rows, schema, name) ==
  getVersion(rows, schema, name, MaxOf(VersionsOf(rows, schema, name)))

\* a rollback that first stores what it is about to replace, as a deploy does
rollback_getVersionSnapshot(p) ==
  /\ pc[p] = "rollback_getVersion"
  /\ \E ok \in BOOLEAN :
       LET L == loc[p]
           found == IF L.version # 0
                    THEN getVersion(SPVersionHistory, L.schema, L.name, L.version)
                    ELSE getLatestVersion(SPVersionHistory, L.schema, L.name)
       IN /\ ok => tableExists
          /\ IF ~ok
             THEN /\ SPVersionHistory' = SPVersionHistory
                  /\ Finish(p, [L EXCEPT !.fault = TRUE], "EngineError", db)
             ELSE IF found = {}
             THEN /\ SPVersionHistory' = SPVersionHistory
                  /\ Finish(p, L, "NotFound", db)
             ELSE /\ SPVersionHistory' =
                       Append(SPVersionHistory,
                              [SchemaName |-> L.schema, ProcedureName |-> L.name,
                               Version |-> NextVersion(SPVersionHistory, L.schema, L.name),
                               Definition |-> db[prodKey(L.schema, L.name)]])
                  /\ \E row \in found :
                       Suspend(p, [L EXCEPT !.versionToRestore = row], "swap_begin")
  /\ UNCHANGED <<db, tableExists, versionTableExists,
                 activeTransactions, sqlTxn, nextId, now, forced, opCount, overlap>>

\* if (version) getVersion else getLatestVersion; then begin is called
rollback_getVersion(p) ==
  /\ pc[p] = "rollback_getVersion"
  /\ \E ok \in BOOLEAN :
       LET L == loc[p]
           found == IF L.version # 0
                    THEN getVersion(SPVersionHistory, L.schema, L.name, L.version)
                    ELSE getLatestVersion(SPVersionHistory, L.schema, L.name)
       IN /\ ok => tableExists
          /\ IF ~ok THEN Finish(p, [L EXCEPT !.fault = TRUE], "EngineError", db)
             ELSE IF found = {} THEN Finish(p, L, "NotFound", db)
             ELSE \E row \in found :
                    Suspend(p, [L EXCEPT !.versionToRestore = row], "swap_begin")
  /\ UNCHANGED <<db, tableExists, SPVersionHistory, versionTableExists,
                 activeTransactions, sqlTxn, nextId, now, forced, opCount, overlap>>

\* ------------------------------------------------ VersionManager.listVersions
\* the Version column of the rows in ORDER BY Version DESC
RECURSIVE OrderByVersionDesc(_)
OrderByVersionDesc(rows) ==
  IF rows = <<>> THEN <<>>
  ELSE LET m == MaxOf({rows[i].Version : i \in 1..Len(rows)})
           i == CHOOSE j \in 1..Len(rows) : rows[j].Version = m
           rest == SubSeq(rows, 1, i - 1) \o SubSeq(rows, i + 1, Len(rows))
       IN <<m>> \o OrderByVersionDesc(rest)

listVersions(p) ==
  /\ Ready(p)
  /\ Begin(p, [L0 EXCEPT !.op = "listVersions"], "listVersions_query")
  /\ UNCHANGED <<db, tableExists, SPVersionHistory, versionTableExists,
                 activeTransactions, sqlTxn, nextId, now, forced>>

\* the SELECT on dbo.SPVersionHistory answers, or fails
listVersions_query(p) ==
  /\ pc[p] = "listVersions_query"
  /\ \E ok \in BOOLEAN :
       LET L == loc[p] IN
       /\ ok => tableExists
       /\ IF ok
          THEN Finish(p, [L EXCEPT !.versions = OrderByVersionDesc(
                                      RowsOf(SPVersionHistory, L.schema, L.name))],
                      "ok", db)
          ELSE Finish(p, [L EXCEPT !.fault = TRUE], "EngineError", db)
  /\ UNCHANGED <<db, tableExists, SPVersionHistory, versionTableExists,
                 activeTransactions, sqlTxn, nextId, now, forced, opCount, overlap>>

\* --------------------------------------------- TransactionManager, by tools
Queries == {<<"UPDATE", "t">>}

\* TransactionManager.begin
beginTransaction(p) ==
  /\ Ready(p)
  /\ Begin(p, [L0 EXCEPT !.op = "begin"], "begin")
  /\ UNCHANGED <<db, tableExists, SPVersionHistory, versionTableExists,
                 activeTransactions, sqlTxn, nextId, now, forced>>

begin(p) ==
  /\ pc[p] = "begin"
  /\ \E ok \in BOOLEAN :
       /\ ok => nextId <= MaxTxns
       /\ IF ok
          THEN /\ nextId' = nextId + 1
               /\ activeTransactions' =
                    activeTransactions @@ (nextId :> [startTime |-> now, queries |-> <<>>])
               /\ sqlTxn' = [sqlTxn EXCEPT ![nextId] = [NoTxn EXCEPT !.status = "open"]]
               /\ Finish(p, [loc[p] EXCEPT !.txnId = nextId], "ok", db)
          ELSE /\ UNCHANGED <<nextId, activeTransactions, sqlTxn>>
               /\ Finish(p, loc[p], "EngineError", db)
  /\ UNCHANGED <<db, tableExists, SPVersionHistory, versionTableExists, now, forced,
                 opCount, overlap>>

\* execute / commit / rollback up to the await: the lookup in activeTransactions
\* (Transaction not found), then the request handed to the driver
Lookup(p, kind, id, query) ==
  /\ Ready(p)
  /\ LET L == [L0 EXCEPT !.op = kind, !.txnId = id, !.query = query,
                         !.gone = sqlTxn[id].status # "open",
                         !.raced = sqlTxn[id].busy \in {"commit", "rollback", "sweep"},
                         !.preDb = db, !.preRows = SPVersionHistory]
     IN IF id \notin DOMAIN activeTransactions
        THEN /\ pc' = [pc EXCEPT ![p] = "done"]
             /\ loc' = [loc EXCEPT ![p] = [L EXCEPT !.result = "NotFound"]]
             /\ sqlTxn' = sqlTxn
        ELSE /\ pc' = [pc EXCEPT ![p] = kind]
             /\ loc' = [loc EXCEPT ![p] = [L EXCEPT !.issued = TRUE,
                                                    !.rejected = ~CanServe(sqlTxn, id)]]
             /\ sqlTxn' = IssueReq(sqlTxn, id, kind)
  /\ opCount' = opCount + 1
  /\ overlap' = IF Quiet(p) THEN overlap ELSE overlap - 1
  /\ UNCHANGED <<db, tableExists, SPVersionHistory, versionTableExists,
                 activeTransactions, nextId, now, forced, log, auditVars, cache>>

executeInTransaction(p, id, query) ==
  /\ id \in DOMAIN activeTransactions => Len(activeTransactions[id].queries) < MaxQueries
  /\ Lookup(p, "execute", id, query)

\* several statements, of different texts, on one transaction
QryInsert == <<"INSERT", "t">>
OrderedQueries == {<<"UPDATE", "t">>, QryInsert}

executeStatement(p, id, query) ==
  /\ id \in DOMAIN activeTransactions => Len(activeTransactions[id].queries) < MaxStatements
  /\ Lookup(p, "execute", id, query)

commitTransaction(p, id) == Lookup(p, "commit", id, NULL)

rollbackTransaction(p, id) == Lookup(p, "rollback", id, NULL)

\* request.query answered: the text is tracked; an error leaves the transaction
execute(p) ==
  /\ pc[p] = "execute"
  /\ \E ok \in BOOLEAN :
       LET L == loc[p]
           id == L.txnId
       IN /\ ok => ~L.rejected /\ CanRunIn(sqlTxn, id, L.query)
          /\ IF ok
             THEN /\ sqlTxn' = Idle(Written(sqlTxn, id, L.query), id)
                  /\ activeTransactions' = Tracked(activeTransactions, id, L.query)
                  /\ Finish(p, L, "ok", db)
             ELSE /\ sqlTxn' = IF L.rejected THEN sqlTxn ELSE Idle(sqlTxn, id)
                  /\ activeTransactions' = activeTransactions
                  /\ Finish(p, L, "EngineError", db)
  /\ UNCHANGED <<db, tableExists, SPVersionHistory, versionTableExists, nextId, now,
                 forced, opCount, overlap>>

\* a commit that leaves the entry in activeTransactions
commitKeepsEntry(p) ==
  /\ pc[p] = "commit"
  /\ \E ok \in BOOLEAN :
       LET L == loc[p]
           id == L.txnId
       IN /\ ok => ~L.rejected
          /\ IF ok
             THEN /\ db' = Committed(sqlTxn, id)
                  /\ sqlTxn' = Ended(sqlTxn, id, "committed")
                  /\ Finish(p, [L EXCEPT !.committed = TRUE], "ok", Committed(sqlTxn, id))
             ELSE /\ db' = db
                  /\ sqlTxn' = IF L.rejected THEN sqlTxn ELSE Idle(sqlTxn, id)
                  /\ Finish(p, L, "EngineError", db)
  /\ UNCHANGED <<tableExists, SPVersionHistory, versionTableExists, nextId, now,
                 forced, opCount, overlap, activeTransactions>>

\* txn.transaction.commit() answered: the entry is deleted on success only
commit(p) ==
  /\ pc[p] = "commit"
  /\ \E ok \in BOOLEAN :
       LET L == loc[p]
           id == L.txnId
       IN /\ ok => ~L.rejected
          /\ IF ok
             THEN /\ db' = Committed(sqlTxn, id)
                  /\ sqlTxn' = Ended(sqlTxn, id, "committed")
                  /\ activeTransactions' = Removed(activeTransactions, id)
                  /\ Finish(p, [L EXCEPT !.committed = TRUE], "ok", Committed(sqlTxn, id))
             ELSE /\ db' = db
                  /\ sqlTxn' = IF L.rejected THEN sqlTxn ELSE Idle(sqlTxn, id)
                  /\ activeTransactions' = activeTransactions
                  /\ Finish(p, L, "EngineError", db)
  /\ UNCHANGED <<tableExists, SPVersionHistory, versionTableExists, nextId, now,
                 forced, opCount, overlap>>

\* txn.transaction.rollback() answered: the entry is deleted on success only
rollbackDone(p) ==
  /\ pc[p] = "rollback"
  /\ \E ok \in BOOLEAN :
       LET L == loc[p]
           id == L.txnId
       IN /\ ok => ~L.rejected
          /\ IF ok
             THEN /\ sqlTxn' = Ended(sqlTxn, id, "rolledback")
                  /\ activeTransactions' = Removed(activeTransactions, id)
                  /\ Finish(p, [L EXCEPT !.cleanup = "rolledback"], "ok", db)
             ELSE /\ sqlTxn' = IF L.rejected THEN sqlTxn ELSE Idle(sqlTxn, id)
                  /\ activeTransactions' = activeTransactions
                  /\ Finish(p, [L EXCEPT !.cleanup = "failed"], "EngineError", db)
  /\ UNCHANGED <<db, tableExists, SPVersionHistory, versionTableExists, nextId, now,
                 forced, opCount, overlap>>

\* a sweep whose rollback the driver carries out whatever it has in hand
cleanupPreempting ==
  /\ now < MaxClock
  /\ DOMAIN activeTransactions # {}
  /\ forced = {}
  /\ now' = now + SWEEP_INTERVAL
  /\ LET timedOut == {id \in DOMAIN activeTransactions :
                        now' - activeTransactions[id].startTime > TRANSACTION_TIMEOUT}
     IN /\ forced' = timedOut
        /\ sqlTxn' = [i \in Ids |-> IF i \in timedOut
                                    THEN [sqlTxn[i] EXCEPT !.busy = "sweep"]
                                    ELSE sqlTxn[i]]
  /\ UNCHANGED <<db, tableExists, SPVersionHistory, versionTableExists,
                 activeTransactions, nextId, pc, loc, opCount, overlap, log, auditVars, cache>>

\* the interval timer fires: every entry older than TRANSACTION_TIMEOUT gets
\* this.rollback(id), not awaited.  The engine answers within one period.
\* With an empty registry the sweep does nothing and no one reads the clock.
cleanupTimedOutTransactions ==
  /\ now < MaxClock
  /\ DOMAIN activeTransactions # {}
  /\ forced = {}
  /\ now' = now + SWEEP_INTERVAL
  /\ LET timedOut == {id \in DOMAIN activeTransactions :
                        now' - activeTransactions[id].startTime > TRANSACTION_TIMEOUT}
         served == {id \in timedOut : CanServe(sqlTxn, id)}
     IN /\ forced' = served
        /\ sqlTxn' = [i \in Ids |-> IF i \in served
                                    THEN [sqlTxn[i] EXCEPT !.busy = "sweep"]
                                    ELSE sqlTxn[i]]
  /\ UNCHANGED <<db, tableExists, SPVersionHistory, versionTableExists,
                 activeTransactions, nextId, pc, loc, opCount, overlap, log, auditVars, cache>>

\* the rollback issued by the sweep answered; its error is only logged
rollbackTimedOut(id) ==
  /\ id \in forced
  /\ forced' = forced \ {id}
  /\ \E ok \in BOOLEAN :
       IF ok
       THEN /\ sqlTxn' = Ended(sqlTxn, id, "rolledback")
            /\ activeTransactions' = Removed(activeTransactions, id)
       ELSE /\ sqlTxn' = Idle(sqlTxn, id)
            /\ activeTransactions' = activeTransactions
  /\ UNCHANGED <<db, tableExists, SPVersionHistory, versionTableExists,
                 nextId, now, pc, loc, opCount, overlap, log, auditVars, cache>>

\* -------------------------------------------------------------- AuditLogger
\* an entry; seq stands for its timestamp and payload
Entry(n, operation, success) == [seq |-> n, operation |-> operation, success |-> success]

\* the call has returned or thrown, having logged nothing in this step
Exit(p, L, result) ==
  /\ pc' = [pc EXCEPT ![p] = "returned"]
  /\ loc' = [loc EXCEPT ![p] = [L EXCEPT !.result = result]]
  /\ UNCHANGED <<auditVars, cache, log>>

\* await auditLogger.log(entry), after which the caller returns or throws
\* result: the entry is pushed; at bufferSize the buffer is handed to
\* fs.appendFile as one batch and the caller waits for the answer
Log(p, L, operation, success, result) ==
  LET pushed == Append(buffer, Entry(logged + 1, operation, success))
      L1 == [L EXCEPT !.entries = Append(@, success), !.result = result]
  IN /\ logged' = logged + 1
     /\ IF Len(pushed) >= bufferSize
        THEN /\ buffer' = <<>>
             /\ writing' = writing \cup {pushed}
             /\ pc' = [pc EXCEPT ![p] = "log"]
             /\ loc' = [loc EXCEPT ![p] = [L1 EXCEPT !.batch = pushed]]
        ELSE /\ buffer' = pushed
             /\ writing' = writing
             /\ pc' = [pc EXCEPT ![p] = "returned"]
             /\ loc' = [loc EXCEPT ![p] = L1]
     /\ UNCHANGED <<logFile, flushInterval, log, cache>>

\* AuditLogger.log called on its own, to record an operation that succeeded
\* or failed
auditLog(p, success) ==
  /\ pc[p] = "idle"
  /\ p = CHOOSE q \in Procs : pc[q] = "idle"
  /\ logged < MaxEntries
  /\ Log(p, [L0 EXCEPT !.op = "log"], "record", success, "ok")
  /\ UNCHANGED <<db, tableExists, SPVersionHistory, versionTableExists,
                 activeTransactions, sqlTxn, nextId, now, forced, opCount, overlap, cache>>

\* the callers whose log call waits for the write of batch b go on
Resume(b, result, flushed) ==
  /\ pc' = [p \in Procs |->
              IF pc[p] = "log" /\ loc[p].batch = b THEN "returned" ELSE pc[p]]
  /\ loc' = [p \in Procs |->
               IF pc[p] = "log" /\ loc[p].batch = b
               THEN [loc[p] EXCEPT !.batch = <<>>, !.flushed = flushed,
                                   !.result = IF result = "same" THEN @ ELSE result]
               ELSE loc[p]]

\* a flush whose catch block is missing: the error of the write reaches the
\* callers of log and the batch is lost
appendFileThrows(b) ==
  /\ b \in writing
  /\ writing' = writing \ {b}
  /\ \E ok \in BOOLEAN :
       IF ok
       THEN /\ logFile' = logFile \o b
            /\ Resume(b, "same", "written")
       ELSE /\ logFile' = logFile
            /\ Resume(b, "WriteError", "failed")
  /\ UNCHANGED <<db, tableExists, SPVersionHistory, versionTableExists,
                 activeTransactions, sqlTxn, nextId, now, forced, opCount, overlap,
                 log, buffer, flushInterval, logged, cache>>

\* a flush whose catch block only logs: the failed batch is not put back
appendFileDrops(b) ==
  /\ b \in writing
  /\ writing' = writing \ {b}
  /\ \E ok \in BOOLEAN :
       IF ok
       THEN /\ logFile' = logFile \o b
            /\ Resume(b, "same", "written")
       ELSE /\ logFile' = logFile
            /\ Resume(b, "same", "failed")
  /\ UNCHANGED <<db, tableExists, SPVersionHistory, versionTableExists,
                 activeTransactions, sqlTxn, nextId, now, forced, opCount, overlap,
                 log, buffer, flushInterval, logged, cache>>

\* fs.appendFile answered: the lines are in the file, or the error is logged
\* and the batch goes back to the front of the buffer
appendFile(b) ==
  /\ b \in writing
  /\ writing' = writing \ {b}
  /\ \E ok \in BOOLEAN :
       IF ok
       THEN /\ logFile' = logFile \o b
            /\ buffer' = buffer
            /\ Resume(b, "same", "written")
       ELSE /\ logFile' = logFile
            /\ buffer' = b \o buffer
            /\ Resume(b, "same", "failed")
  /\ UNCHANGED <<db, tableExists, SPVersionHistory, versionTableExists,
                 activeTransactions, sqlTxn, nextId, now, forced, opCount, overlap,
                 log, flushInterval, logged, cache>>

\* one of the writes in progress is answered
flush_appendFile == \E b \in writing : appendFile(b)

\* a flush that hands the buffer over without emptying it
flushKeepsBuffer ==
  /\ buffer # <<>>
  /\ buffer' = buffer
  /\ writing' = writing \cup {buffer}

\* AuditLogger.flush up to its await; with an empty buffer it returns at once
flush ==
  /\ buffer # <<>>
  /\ buffer' = <<>>
  /\ writing' = writing \cup {buffer}

\* the interval timer fires
flushTick ==
  /\ flushInterval
  /\ flush
  /\ UNCHANGED <<db, tableExists, SPVersionHistory, versionTableExists,
                 activeTransactions, sqlTxn, nextId, now, forced, pc, loc, opCount,
                 overlap, log, logFile, flushInterval, logged, cache>>

\* AuditLogger.close: the timer is cleared and the buffer flushed once
close ==
  /\ flushInterval
  /\ flushInterval' = FALSE
  /\ IF buffer = <<>> THEN UNCHANGED <<buffer, writing>> ELSE flush
  /\ UNCHANGED <<db, tableExists, SPVersionHistory, versionTableExists,
                 activeTransactions, sqlTxn, nextId, now, forced, pc, loc, opCount,
                 overlap, log, logFile, logged, cache>>

\* the caller has seen the outcome of a tool; its frame is gone
Returned(p) ==
  /\ pc[p] = "returned"
  /\ pc' = [pc EXCEPT ![p] = "idle"]
  /\ loc' = [loc EXCEPT ![p] = L0]
  /\ UNCHANGED <<db, tableExists, SPVersionHistory, versionTableExists,
                 activeTransactions, sqlTxn, nextId, now, forced, opCount, overlap, log,
                 auditVars, cache>>


\* ------------------------------------------------- tools: executeQueryWrite
writeKeywords ==
  {"INSERT", "UPDATE", "DELETE", "MERGE", "TRUNCATE", "CREATE", "ALTER", "DROP"}

\* String.prototype.trim: white space at both ends goes; between tokens the
\* only white space that is a token is the line break
RECURSIVE trimStart(_)
trimStart(sql) ==
  IF sql # <<>> /\ Head(sql) = "NL" THEN trimStart(Tail(sql)) ELSE sql

RECURSIVE trimEnd(_)
trimEnd(sql) ==
  IF sql # <<>> /\ sql[Len(sql)] = "NL" THEN trimEnd(SubSeq(sql, 1, Len(sql) - 1)) ELSE sql

trim(sql) == trimEnd(trimStart(sql))

\* tokens that begin with the letters of a shorter word
Extends(token, word) ==
  <<token, word>> \in {<<"INSERTED", "INSERT">>, <<"DROPLETS", "DROP">>}

\* String.prototype.startsWith, for a keyword of one word
startsWith(sql, keyword) ==
  sql # <<>> /\ (sql[1] = keyword \/ Extends(sql[1], keyword))

\* a comparison that tells the letter cases apart
isWriteQueryCased(sql) == \E keyword \in writeKeywords : startsWith(trim(sql), keyword)

\* SQLValidator.isWriteQuery
isWriteQuery(sql) ==
  LET trimmed == trim(sql)
      normalizedSql == [i \in 1..Len(trimmed) |-> Upper(trimmed[i])]
  IN \E keyword \in writeKeywords : startsWith(normalizedSql, keyword)

\* ------------------------------------------ SQLValidator called on its own
\* the words of the statements handed to the validator
Vocabulary ==
  {"SELECT", "select", "INSERT", "insert", "Update", "delete", "MERGE", "truncate",
   "create", "ALTER", "drop", "DROP", "DATABASE", "Database", "databases",
   "xp_cmdshell", "XP_CMDSHELL", "WITH", "exec", "INSERTED", "--", "NL", "x"}

\* sql: string, the empty string included
Statements == UNION {[1..n -> Vocabulary] : n \in 0..MaxLen}

InitValidator ==
  /\ Fresh
  /\ overlap = 0
  /\ \E sql \in Statements : loc = [p \in Procs |-> [L0 EXCEPT !.query = sql]]

\* const validation = validator.validate(sql)
callValidate(p) ==
  /\ pc[p] = "idle"
  /\ LET validation == validate(loc[p].query)
     IN /\ pc' = [pc EXCEPT ![p] = "validated"]
        /\ loc' = [loc EXCEPT ![p].rejected = ~validation.valid,
                              ![p].reasons = validation.errors]
  /\ UNCHANGED <<db, tableExists, SPVersionHistory, versionTableExists,
                 activeTransactions, sqlTxn, nextId, now, forced, opCount, overlap, log,
                 auditVars, cache>>

\* validator.isWriteQuery(sql)
callIsWriteQuery(p) ==
  /\ pc[p] = "idle"
  /\ pc' = [pc EXCEPT ![p] = "classified"]
  /\ loc' = [loc EXCEPT ![p].write = isWriteQuery(loc[p].query)]
  /\ UNCHANGED <<db, tableExists, SPVersionHistory, versionTableExists,
                 activeTransactions, sqlTxn, nextId, now, forced, opCount, overlap, log,
                 auditVars, cache>>

QryUpdate == <<"UPDATE", "t">>
QrySelect == <<"SELECT", "1">>
QryStacked == <<"UPDATE", "t", ";", "DROP", "TABLE", "t">>
WriteQueries == {QryUpdate, QrySelect, QryStacked}

\* rowsAffected[0] || 0 of a statement that succeeded
RowCounts == 0..(maxRowsAffected + 1)

\* a gate that lets every statement through
AdmittedAlways(query) == TRUE

\* if (!validation.valid)
Admitted(query) == validate(query).valid

\* a statement failure that ends the transaction on the server
FailedAborts(st, id, rejected) == [st EXCEPT ![id].status = "rolledback", ![id].busy = "no"]

\* the transaction after a request on it failed: nothing is rolled back
Failed(st, id, rejected) == IF rejected THEN st ELSE Idle(st, id)

\* the outer catch: the failure is logged and thrown again
Thrown(p, L, error) == Log(p, L, "execute_query_write", FALSE, error)

\* the inner catch: await rollback(usedTransactionId); throw error
CatchRollback(p, L, st, reg, error) ==
  /\ activeTransactions' = reg
  /\ IF L.txnId \in DOMAIN reg
     THEN /\ sqlTxn' = IssueReq(st, L.txnId, "rollback")
          /\ Suspend(p, [L EXCEPT !.error = error, !.rejected = ~CanServe(st, L.txnId)],
                  "eqw_rollback")
     ELSE /\ sqlTxn' = st
          /\ Thrown(p, L, "NotFound")

\* validation, the write check, then execute on the supplied transaction or
\* begin of a temporary one; transactionId 0: none supplied
executeQueryWrite(p, query, transactionId) ==
  /\ Ready(p)
  /\ transactionId \in DOMAIN activeTransactions =>
       Len(activeTransactions[transactionId].queries) < MaxQueries
  /\ opCount' = opCount + 1
  /\ overlap' = IF Quiet(p) THEN overlap ELSE overlap - 1
  /\ LET L == [L0 EXCEPT !.op = "executeQueryWrite", !.query = query,
                         !.txnId = transactionId,
                         !.preDb = db, !.preRows = SPVersionHistory]
     IN IF ~Admitted(query)
        THEN /\ Log(p, [L EXCEPT !.reasons = validate(query).errors],
                    "execute_query_write", FALSE, "ValidationError")
             /\ sqlTxn' = sqlTxn
        ELSE IF ~isWriteQuery(query)
        THEN Exit(p, L, "NotWrite") /\ sqlTxn' = sqlTxn
        ELSE IF transactionId = 0
        THEN Suspend(p, [L EXCEPT !.auto = TRUE], "eqw_begin") /\ sqlTxn' = sqlTxn
        ELSE IF transactionId \notin DOMAIN activeTransactions
        THEN Thrown(p, L, "NotFound") /\ sqlTxn' = sqlTxn
        ELSE /\ sqlTxn' = IssueReq(sqlTxn, transactionId, "execute")
             /\ Suspend(p, [L EXCEPT !.issued = TRUE,
                                  !.rejected = ~CanServe(sqlTxn, transactionId)],
                     "eqw_execute")
  /\ UNCHANGED <<db, tableExists, SPVersionHistory, versionTableExists,
                 activeTransactions, nextId, now, forced>>

\* transactionManager.begin() answered; execute on the new transaction
eqw_begin(p) ==
  /\ pc[p] = "eqw_begin"
  /\ \E ok \in BOOLEAN :
       LET L == loc[p] IN
       /\ ok => nextId <= MaxTxns
       /\ IF ok
          THEN /\ nextId' = nextId + 1
               /\ activeTransactions' =
                    activeTransactions @@ (nextId :> [startTime |-> now, queries |-> <<>>])
               /\ sqlTxn' = [sqlTxn EXCEPT
                               ![nextId] = [NoTxn EXCEPT !.status = "open",
                                                         !.busy = "execute"]]
               /\ Suspend(p, [L EXCEPT !.txnId = nextId, !.issued = TRUE], "eqw_execute")
          ELSE /\ UNCHANGED <<nextId, activeTransactions, sqlTxn>>
               /\ Thrown(p, [L EXCEPT !.fault = TRUE], "EngineError")
  /\ UNCHANGED <<db, tableExists, SPVersionHistory, versionTableExists, now, forced,
                 opCount, overlap>>

\* transactionManager.execute answered.  On a supplied transaction the result
\* is reported as it is; on a temporary one the rows are counted, then
\* rollback (over the limit) or commit
eqw_execute(p) ==
  /\ pc[p] = "eqw_execute"
  /\ \E ok \in BOOLEAN, rows \in RowCounts :
       LET L == loc[p]
           id == L.txnId
           done == Idle(Written(sqlTxn, id, L.query), id)
           reg == Tracked(activeTransactions, id, L.query)
           L1 == [L EXCEPT !.executed = TRUE, !.rowsAffected = rows]
           L2 == [L EXCEPT !.fault = CanRunIn(sqlTxn, id, L.query) /\ ~L.rejected]
       IN /\ ok => ~L.rejected /\ CanRunIn(sqlTxn, id, L.query)
          /\ ~ok => rows = 0
          /\ IF ok /\ ~L.auto
             THEN /\ sqlTxn' = done
                  /\ activeTransactions' = reg
                  /\ Log(p, L1, "execute_query_write", TRUE, "ok")
             ELSE IF ok /\ rows > maxRowsAffected
             THEN /\ activeTransactions' = reg
                  /\ IF id \in DOMAIN reg
                     THEN /\ sqlTxn' = IssueReq(done, id, "rollback")
                          /\ Suspend(p, [L1 EXCEPT !.rejected = ~CanServe(done, id)],
                                  "eqw_limit")
                     ELSE CatchRollback(p, L1, done, reg, "NotFound")
             ELSE IF ok
             THEN /\ activeTransactions' = reg
                  /\ IF id \in DOMAIN reg
                     THEN /\ sqlTxn' = IssueReq(done, id, "commit")
                          /\ Suspend(p, [L1 EXCEPT !.rejected = ~CanServe(done, id)],
                                  "eqw_commit")
                     ELSE CatchRollback(p, L1, done, reg, "NotFound")
             ELSE IF L.auto
             THEN CatchRollback(p, L2, Failed(sqlTxn, id, L.rejected),
                                activeTransactions, "EngineError")
             ELSE /\ sqlTxn' = Failed(sqlTxn, id, L.rejected)
                  /\ activeTransactions' = activeTransactions
                  /\ Thrown(p, L2, "EngineError")
  /\ UNCHANGED <<db, tableExists, SPVersionHistory, versionTableExists, nextId, now,
                 forced, opCount, overlap>>

\* the rollback of the statement over the limit answered; the error thrown
\* next is caught by the inner catch, which calls rollback once more
eqw_limit(p) ==
  /\ pc[p] = "eqw_limit"
  /\ \E ok \in BOOLEAN :
       LET L == loc[p]
           id == L.txnId
       IN /\ ok => ~L.rejected
          /\ IF ok
             THEN CatchRollback(p, [L EXCEPT !.cleanup = "rolledback"],
                                Ended(sqlTxn, id, "rolledback"),
                                Removed(activeTransactions, id), "LimitExceeded")
             ELSE CatchRollback(p, [L EXCEPT !.fault = TRUE],
                                Failed(sqlTxn, id, L.rejected),
                                activeTransactions, "EngineError")
  /\ UNCHANGED <<db, tableExists, SPVersionHistory, versionTableExists, nextId, now,
                 forced, opCount, overlap>>

\* the commit of the temporary transaction answered
eqw_commit(p) ==
  /\ pc[p] = "eqw_commit"
  /\ \E ok \in BOOLEAN :
       LET L == loc[p]
           id == L.txnId
       IN /\ ok => ~L.rejected
          /\ IF ok
             THEN /\ db' = Committed(sqlTxn, id)
                  /\ sqlTxn' = Ended(sqlTxn, id, "committed")
                  /\ activeTransactions' = Removed(activeTransactions, id)
                  /\ Log(p, [L EXCEPT !.committed = TRUE], "execute_query_write",
                         TRUE, "ok")
             ELSE /\ db' = db
                  /\ CatchRollback(p, [L EXCEPT !.fault = TRUE],
                                   Failed(sqlTxn, id, L.rejected),
                                   activeTransactions, "EngineError")
  /\ UNCHANGED <<tableExists, SPVersionHistory, versionTableExists, nextId, now,
                 forced, opCount, overlap>>

\* the rollback of the inner catch answered: the caught error is thrown again,
\* or the error of the rollback in its place
eqw_rollback(p) ==
  /\ pc[p] = "eqw_rollback"
  /\ \E ok \in BOOLEAN :
       LET L == loc[p]
           id == L.txnId
       IN /\ ok => ~L.rejected
          /\ IF ok
             THEN /\ sqlTxn' = Ended(sqlTxn, id, "rolledback")
                  /\ activeTransactions' = Removed(activeTransactions, id)
                  /\ Thrown(p, [L EXCEPT !.cleanup = "rolledback"], L.error)
             ELSE /\ sqlTxn' = Failed(sqlTxn, id, L.rejected)
                  /\ activeTransactions' = activeTransactions
                  /\ Thrown(p, [L EXCEPT !.cleanup = "failed", !.fault = TRUE],
                            "EngineError")
  /\ UNCHANGED <<db, tableExists, SPVersionHistory, versionTableExists, nextId, now,
                 forced, opCount, overlap>>

\* ------------------------------------------------ tools: transaction tools
toolName(op) ==
  CASE op = "begin" -> "begin_transaction"
    [] op = "commit" -> "commit_transaction"
    [] op = "rollback" -> "rollback_transaction"
    [] OTHER -> op

\* beginTransaction / commitTransaction / rollbackTransaction after the call
\* of the manager: a success is logged, an error passes through
transactionTool(p) ==
  /\ pc[p] = "done"
  /\ loc[p].op \in {"begin", "commit", "rollback"}
  /\ IF loc[p].result = "ok"
     THEN Log(p, loc[p], toolName(loc[p].op), TRUE, "ok")
     ELSE Exit(p, loc[p], loc[p].result)
  /\ UNCHANGED <<db, tableExists, SPVersionHistory, versionTableExists,
                 activeTransactions, sqlTxn, nextId, now, forced, opCount, overlap>>

\* ------------------------------------------------------------ specifications
\* createDraft and deployDraft, step by step
Deployment(p, defs) ==
  \/ \E d \in defs : createDraft(p, d)
  \/ createDraft_validate(p)
  \/ createDraft_drop(p)
  \/ createDraft_create(p)
  \/ deployDraft(p)
  \/ deployDraft_getDraftDefinition(p)
  \/ deployDraft_getCurrentDefinition(p)
  \/ ensureVersionTable(p)
  \/ saveVersion_nextVersion(p)
  \/ saveVersion_insert(p)
  \/ saveVersion_cleanup(p)
  \/ swap_begin(p)
  \/ swap_drop(p)
  \/ swap_create(p)
  \/ swap_commit(p)
  \/ deployDraft_deleteDraft(p)
  \/ swap_rollback(p)
  \/ Return(p)

Lifecycle(p) ==
  \/ Deployment(p, Definitions)
  \/ \E v \in 0..maxVersions : rollback(p, v)
  \/ rollback_getVersion(p)
  \/ listVersions(p)
  \/ listVersions_query(p)

\* overlapping createDraft and deployDraft calls, of well-formed definitions
NextDeploy == \E p \in Procs : Deployment(p, {DefA, DefB})

Spec == Init /\ [][NextDeploy]_vars

\* the whole draft lifecycle, one call at a time
Next == \E p \in Procs : Lifecycle(p)

SpecSeq == InitSeq /\ [][Next]_vars

Tools(p) ==
  \/ beginTransaction(p)
  \/ begin(p)
  \/ \E id \in Ids, q \in Queries : executeInTransaction(p, id, q)
  \/ execute(p)
  \/ \E id \in Ids : commitTransaction(p, id)
  \/ commit(p)
  \/ \E id \in Ids : rollbackTransaction(p, id)
  \/ rollbackDone(p)
  \/ Return(p)

NextTxn ==
  \/ \E p \in Procs : Tools(p)
  \/ cleanupTimedOutTransactions
  \/ \E id \in Ids : rollbackTimedOut(id)

SpecTxn == Init /\ [][NextTxn]_vars

\* statements of different texts executed on transactions by overlapping calls
NextOrder ==
  \E p \in Procs :
    \/ beginTransaction(p)
    \/ begin(p)
    \/ \E id \in Ids, q \in OrderedQueries : executeStatement(p, id, q)
    \/ execute(p)
    \/ \E id \in Ids : commitTransaction(p, id)
    \/ commit(p)
    \/ Return(p)

SpecOrder == Init /\ [][NextOrder]_vars

\* ------------------------------------------- TransactionManager.generateId
\* `txn_${Date.now()}_${Math.random()...substring(2, 11)}`: the sweep period
\* the call falls in, then the suffix, which stands for the milliseconds
\* within the period and the characters cut from Math.random()
generateId(t, suffix) == t * (MaxSuffix + 1) + suffix + 1

\* begin up to its await: the id is generated before transaction.begin()
begin_generateId(p) ==
  /\ Ready(p)
  /\ \E suffix \in 0..MaxSuffix :
       Begin(p, [L0 EXCEPT !.op = "begin", !.txnId = generateId(now, suffix)],
             "begin_transaction")
  /\ UNCHANGED <<db, tableExists, SPVersionHistory, versionTableExists,
                 activeTransactions, sqlTxn, nextId, now, forced>>

\* transaction.begin() answered: activeTransactions.set(transactionId, ...)
\* puts the entry under the generated id, replacing whatever is there
begin_set(p) ==
  /\ pc[p] = "begin_transaction"
  /\ \E ok \in BOOLEAN :
       /\ ok => nextId <= MaxTxns
       /\ IF ok
          THEN /\ nextId' = nextId + 1
               /\ activeTransactions' =
                    (loc[p].txnId :> [startTime |-> now, queries |-> <<>>,
                                      transaction |-> nextId])
                      @@ activeTransactions
               /\ sqlTxn' = [sqlTxn EXCEPT ![nextId] = [NoTxn EXCEPT !.status = "open"]]
               /\ Finish(p, loc[p], "ok", db)
          ELSE /\ UNCHANGED <<nextId, activeTransactions, sqlTxn>>
               /\ Finish(p, loc[p], "EngineError", db)
  /\ UNCHANGED <<db, tableExists, SPVersionHistory, versionTableExists, now, forced,
                 opCount, overlap>>

\* time passes, d periods, with nothing for the sweep to do
elapse(d, limit) ==
  /\ now + d <= limit
  /\ now' = now + d
  /\ UNCHANGED <<db, tableExists, SPVersionHistory, versionTableExists,
                 activeTransactions, sqlTxn, nextId, forced, pc, loc, opCount, overlap,
                 log, auditVars, cache>>

Begins(p) ==
  \/ begin_generateId(p)
  \/ begin_set(p)
  \/ Return(p)

\* begin calls with the ids the code generates, no transaction being ended
NextIds ==
  \/ \E p \in Procs : Begins(p)
  \/ elapse(SWEEP_INTERVAL, MaxPeriods)

SpecIds == Init /\ [][NextIds]_vars

\* ------------------------------------------------------- VirtualFileSystem
\* FileCache.get: nothing when the cache is off, the key has no entry, or the
\* entry is older than the timeout
get(c, key, t) ==
  IF ~enableCache \/ c[key] = NoEntry \/ t - c[key].timestamp > cacheTimeout
  THEN NULL
  ELSE c[key].data

\* FileCache.get deletes the entry it finds expired
expire(c, key, t) ==
  IF enableCache /\ c[key] # NoEntry /\ t - c[key].timestamp > cacheTimeout
  THEN [c EXCEPT ![key] = NoEntry]
  ELSE c

\* FileCache.set
set(c, key, data, t) ==
  IF enableCache THEN [c EXCEPT ![key] = [data |-> data, timestamp |-> t]] ELSE c

\* readFile of the uri of the stored procedure schema.name, up to its await:
\* what the cache holds is returned at once
readFile(p, schema, name) ==
  /\ Ready(p)
  /\ LET key == prodKey(schema, name)
         cached == get(cache, key, now)
         L == [L0 EXCEPT !.op = "readFile", !.schema = schema, !.name = name,
                         !.preDb = db, !.preRows = SPVersionHistory]
     IN /\ cache' = expire(cache, key, now)
        /\ IF cached # NULL
           THEN /\ pc' = [pc EXCEPT ![p] = "done"]
                /\ loc' = [loc EXCEPT ![p] = [L EXCEPT !.definition = cached,
                                                      !.result = "ok"]]
           ELSE /\ pc' = [pc EXCEPT ![p] = "readFile_getStoredProcedureDefinition"]
                /\ loc' = [loc EXCEPT ![p] = L]
  /\ opCount' = opCount + 1
  /\ overlap' = IF Quiet(p) THEN overlap ELSE overlap - 1
  /\ UNCHANGED <<db, tableExists, SPVersionHistory, versionTableExists,
                 activeTransactions, sqlTxn, nextId, now, forced, log, auditVars>>

\* executeScalar answered: no definition is "Stored procedure not found",
\* a definition is put in the cache and returned
readFile_getStoredProcedureDefinition(p) ==
  /\ pc[p] = "readFile_getStoredProcedureDefinition"
  /\ \E ok \in BOOLEAN :
       LET L == loc[p]
           key == prodKey(L.schema, L.name)
           result == IF ~ok THEN "EngineError"
                     ELSE IF db[key] = NULL THEN "NotFound" ELSE "ok"
       IN /\ ok => ~Locked(sqlTxn, key, 0)
          /\ cache' = IF result = "ok" THEN set(cache, key, db[key], now) ELSE cache
          /\ loc' = [loc EXCEPT ![p] =
                       [L EXCEPT !.result = result,
                                 !.definition = IF result = "ok" THEN db[key] ELSE NULL]]
  /\ pc' = [pc EXCEPT ![p] = "done"]
  /\ UNCHANGED <<db, tableExists, SPVersionHistory, versionTableExists,
                 activeTransactions, sqlTxn, nextId, now, forced, opCount, overlap, log,
                 auditVars>>

\* a draft created and deployed, the latest version restored, and the
\* production routine read through the virtual filesystem, one call at a time
Publishing(p) ==
  \/ Deployment(p, {DefB})
  \/ rollback(p, 0)
  \/ rollback_getVersion(p)
  \/ \E name \in Names : readFile(p, "dbo", name)
  \/ readFile_getStoredProcedureDefinition(p)

NextCache ==
  \/ \E p \in Procs : Publishing(p)
  \/ elapse(cacheTimeout + 1, MaxClock)

\* a database in which the routine is already in production
InitCache ==
  /\ db = [EmptyCatalog EXCEPT ![prodKey("dbo", "P")] = DefA]
  /\ tableExists = FALSE
  /\ SPVersionHistory = <<>>
  /\ versionTableExists = FALSE
  /\ activeTransactions = <<>>
  /\ sqlTxn = [i \in Ids |-> NoTxn]
  /\ nextId = 1
  /\ now = 0
  /\ forced = {}
  /\ pc = [p \in Procs |-> "idle"]
  /\ loc = [p \in Procs |-> L0]
  /\ opCount = 0
  /\ overlap = 0
  /\ log = <<>>
  /\ buffer = <<>>
  /\ writing = {}
  /\ cache = [k \in Keys |-> NoEntry]
  /\ logFile = <<>>
  /\ flushInterval = TRUE
  /\ logged = 0

SpecCache == InitCache /\ [][NextCache]_vars

\* the audit log on its own: entries logged, the timer, the file, close
NextAudit ==
  \/ \E p \in Procs, success \in BOOLEAN : auditLog(p, success)
  \/ flush_appendFile
  \/ flushTick
  \/ close
  \/ \E p \in Procs : Returned(p)

SpecAudit == Init /\ [][NextAudit]_vars

\* the timer keeps firing while it is armed, and a write that is attempted
\* again and again succeeds in the end
WriteSucceeds ==
  \E b \in writing :
    /\ appendFile(b)
    /\ logFile' = logFile \o b

SpecAuditLive == SpecAudit /\ WF_vars(flushTick) /\ SF_vars(WriteSucceeds)

\* the write tool and the transaction tools, one call at a time, with the
\* audit entries they log
WriteTools(p) ==
  \/ \E q \in WriteQueries, id \in 0..MaxTxns : executeQueryWrite(p, q, id)
  \/ eqw_begin(p)
  \/ eqw_execute(p)
  \/ eqw_limit(p)
  \/ eqw_commit(p)
  \/ eqw_rollback(p)
  \/ beginTransaction(p)
  \/ begin(p)
  \/ \E id \in Ids : commitTransaction(p, id)
  \/ commit(p)
  \/ \E id \in Ids : rollbackTransaction(p, id)
  \/ rollbackDone(p)
  \/ transactionTool(p)
  \/ Returned(p)

NextWrite ==
  \/ \E p \in Procs : WriteTools(p)
  \/ flush_appendFile

SpecWrite == InitSeq /\ [][NextWrite]_vars

\* the version store on its own: saveVersion for two routines, one at a time
NextVersions ==
  \E p \in Procs :
    \/ \E name \in VersionedNames, d \in {DefA, DefB} : saveVersion(p, name, d)
    \/ ensureVersionTable(p)
    \/ saveVersion_nextVersion(p)
    \/ saveVersion_insert(p)
    \/ saveVersion_cleanup(p)
    \/ Return(p)

SpecVersions == InitSeq /\ [][NextVersions]_vars

\* the validator on its own, applied to every short statement
NextValidator == \E p \in Procs : callValidate(p) \/ callIsWriteQuery(p)

SpecValidator == InitValidator /\ [][NextValidator]_vars

\* the same saves issued by concurrent callers
SpecVersionsPar == Init /\ [][NextVersions]_vars

\* ------------------------------------------------------------ properties
prod(p) == prodKey(loc[p].schema, loc[p].name)
draft(p) == draftKey(loc[p].name)
Finished(p, op) == pc[p] = "done" /\ loc[p].op = op

\* C1: whenever deployDraft replaces an existing production definition D, that
\* same call saved D with saveVersion before its swap transaction began.
C1_BackupBeforeSwap ==
  [][\A p \in Procs :
       (/\ loc[p].op = "deployDraft"
        /\ pc[p] = "swap_commit"
        /\ pc'[p] = "deployDraft_deleteDraft"
        /\ db[prod(p)] # NULL)
       => loc[p].currentDefinition = db[prod(p)]]_vars

\* the swap transaction of the finished call failed at its drop, create or commit
SwapFailed(p) ==
  /\ pc[p] = "done"
  /\ loc[p].op \in {"deployDraft", "rollback"}
  /\ loc[p].failedAt \in {"swap_drop", "swap_create", "swap_commit"}

Untouched(p) == db[prod(p)] = loc[p].preDb[prod(p)] /\ db[draft(p)] = loc[p].preDb[draft(p)]

Gained(p) ==
  LET rows == RowsOf(SPVersionHistory, loc[p].schema, loc[p].name)
      old == VersionsOf(loc[p].preRows, loc[p].schema, loc[p].name)
  IN {i \in 1..Len(rows) : rows[i].Version \notin old}

\* C3: when deployDraft returns successfully, production holds the draft's
\* definition retargeted to the production schema, the draft is gone, and the
\* Version Store gained exactly one snapshot if a production definition existed
\* before the call and none otherwise.
C3_SuccessfulDeploy ==
  \A p \in Procs :
    Finished(p, "deployDraft") /\ loc[p].result = "ok" =>
      /\ db[prod(p)] =
           rewriteForProductionSchema(loc[p].draftDefinition, loc[p].schema, loc[p].name)
      /\ db[draft(p)] = NULL
      /\ loc[p].committed
      /\ Cardinality(Gained(p)) = IF loc[p].preDb[prod(p)] # NULL THEN 1 ELSE 0

\* the history is N successful deploys of the routine, starting from none
DeploysOnly ==
  /\ Len(log) >= 1
  /\ \A p \in Procs : pc[p] = "idle"
  /\ \A i \in 1..Len(log) : log[i].op = "deployDraft" /\ log[i].result = "ok"
  /\ log[1].before = NULL
  /\ \A i \in 2..Len(log) : log[i].before = log[i - 1].after

Min(a, b) == IF a < b THEN a ELSE b

\* C4: after N >= 1 successful deploys of a routine that did not exist, the
\* Version Store holds the definitions the deploys replaced (none for the
\* first), the maxVersions most recent of them, numbered in deploy order.
C4_DeployBackupInvariant ==
  DeploysOnly =>
    LET rows == RowsOf(SPVersionHistory, "dbo", "P")
        n == Len(log)
        kept == Min(maxVersions, n - 1)
    IN /\ Len(rows) = kept
       /\ \A i \in 1..Len(rows) :
            /\ rows[i].Definition = log[n - kept + i].before
            /\ rows[i].Version = n - 1 - kept + i

\* C5: from no production routine, deploy A, deploy B (the backup of A is
\* taken), then rollback with no explicit version, which meets no failure of
\* the engine: the rollback succeeds and production equals A.
C5_RollbackRoundTrip ==
  (/\ Len(log) = 3
   /\ \A p \in Procs : pc[p] = "idle"
   /\ log[1].op = "deployDraft" /\ log[1].result = "ok" /\ log[1].before = NULL
   /\ log[2].op = "deployDraft" /\ log[2].result = "ok" /\ log[2].before = log[1].after
   /\ \E i \in 1..Len(SPVersionHistory) : SPVersionHistory[i].Definition = log[1].after
   /\ log[3].op = "rollback" /\ log[3].version = 0 /\ log[3].before = log[2].after
   /\ ~log[3].fault)
  => /\ log[3].result = "ok"
     /\ db[prodKey("dbo", "P")] = log[1].after

\* C6: saveVersion calls issued concurrently for one routine store distinct,
\* contiguous version numbers.
C6_DistinctVersions ==
  LET rows == RowsOf(SPVersionHistory, "dbo", "P")
      vs == VersionsOf(SPVersionHistory, "dbo", "P")
  IN /\ \A i, j \in 1..Len(rows) : i # j => rows[i].Version # rows[j].Version
     /\ \A v \in 1..MaxOf(vs) : (\E w \in vs : w < v) => v \in vs

\* C7: createDraft changes no routine outside the draft namespace, and an
\* accepted definition leaves its body, unaltered, in the draft.
C7_CreateDraftFrame ==
  \A p \in Procs :
    Finished(p, "createDraft") =>
      /\ \A k \in Keys : k # draft(p) => db[k] = loc[p].preDb[k]
      /\ loc[p].result = "ok" =>
           db[draft(p)] = rewriteForDraftSchema(loc[p].definition, loc[p].schema, loc[p].name)

\* C8: a transaction on which neither commit nor rollback was ever called is
\* no longer in the registry once TRANSACTION_TIMEOUT plus one sweep interval
\* has passed since its begin.
C8_TimedOutGone ==
  \A id \in DOMAIN activeTransactions :
    ~sqlTxn[id].ending =>
      now - activeTransactions[id].startTime <= TRANSACTION_TIMEOUT + SWEEP_INTERVAL

C10_SingleWinner ==
  /\ \A p, q \in Procs :
       (/\ p # q
        /\ pc[p] = "done" /\ pc[q] = "done"
        /\ loc[p].op \in {"commit", "rollback"} /\ loc[q].op \in {"commit", "rollback"}
        /\ loc[p].txnId = loc[q].txnId)
       => ~(loc[p].result = "ok" /\ loc[q].result = "ok")
  /\ \A p \in Procs :
       pc[p] = "done" /\ loc[p].op \in {"commit", "rollback"} /\ loc[p].raced =>
         loc[p].result = "NotFound"

\* the tool call has returned or thrown
Answered(p, op) == pc[p] = "returned" /\ loc[p].op = op

\* the server-side state of the transaction the call used
txnOf(p) == sqlTxn[loc[p].txnId]

\* C11: executeQueryWrite executes nothing for a statement that validate
\* rejects: no transaction is begun, nothing is sent to any transaction, a
\* supplied one included, the registry is unchanged, and the call fails with a
\* validation error that lists the reasons.
C11_RejectedNeverRuns ==
  /\ [](\A p \in Procs :
          loc[p].op = "executeQueryWrite" /\ ~validate(loc[p].query).valid =>
            /\ pc[p] \in {"log", "returned"}
            /\ loc[p].result = "ValidationError"
            /\ loc[p].reasons = validate(loc[p].query).errors
            /\ loc[p].reasons # <<>>
            /\ ~loc[p].issued /\ ~loc[p].auto /\ ~loc[p].executed)
  /\ [][\A p \in Procs :
          loc'[p].op = "executeQueryWrite" /\ pc[p] = "idle"
            /\ ~validate(loc'[p].query).valid =>
              UNCHANGED <<activeTransactions, sqlTxn, nextId, db>>]_vars

\* a stacked statement aimed at an open transaction of the caller was refused
C11_Witness ==
  \E p \in Procs :
    /\ Answered(p, "executeQueryWrite")
    /\ loc[p].query = QryStacked
    /\ loc[p].txnId \in DOMAIN activeTransactions
    /\ loc[p].result = "ValidationError"

\* C12: without a transactionId, a statement that affects more than
\* maxRowsAffected rows has its transaction rolled back, never committed, and
\* the call fails with LimitExceeded; one that affects at most maxRowsAffected
\* rows is committed.  (Calls that met no failure of the engine.)
C12_LimitRollsBack ==
  \A p \in Procs :
    (/\ Answered(p, "executeQueryWrite")
     /\ loc[p].auto /\ loc[p].executed /\ ~loc[p].fault)
    => IF loc[p].rowsAffected > maxRowsAffected
       THEN /\ txnOf(p).status = "rolledback"
            /\ ~loc[p].committed
            /\ loc[p].result = "LimitExceeded"
       ELSE /\ txnOf(p).status = "committed"
            /\ loc[p].result = "ok"

\* C13: a write that affected more than maxRowsAffected rows is never reported
\* as a success; on a supplied transaction the call fails with LimitExceeded
\* and the transaction stays open.
C13_OverLimitNeverSucceeds ==
  \A p \in Procs :
    (/\ Answered(p, "executeQueryWrite")
     /\ loc[p].executed /\ loc[p].rowsAffected > maxRowsAffected)
    => /\ loc[p].result # "ok"
       /\ ~loc[p].auto =>
            /\ loc[p].result = "LimitExceeded"
            /\ loc[p].txnId \in DOMAIN activeTransactions
            /\ txnOf(p).status = "open"

\* C14: a statement that fails on a supplied transaction surfaces the error
\* of the engine and leaves the transaction registered and open: the step
\* changes no registry entry and asks for no commit and no rollback.
C14_FailedStatementKeepsTxn ==
  /\ [](\A p \in Procs :
          (/\ loc[p].op = "executeQueryWrite" /\ pc[p] \in {"log", "returned"}
           /\ ~loc[p].auto /\ loc[p].issued /\ ~loc[p].executed)
          => /\ loc[p].result = "EngineError"
             /\ loc[p].txnId \in DOMAIN activeTransactions
             /\ txnOf(p).status = "open"
             /\ txnOf(p).busy = "no"
             /\ loc[p].cleanup = "none" /\ ~loc[p].committed)
  /\ [][\A p \in Procs :
          pc[p] = "eqw_execute" /\ ~loc[p].auto /\ pc'[p] # pc[p]
            /\ ~loc'[p].executed =>
              /\ activeTransactions' = activeTransactions
              /\ sqlTxn'[loc[p].txnId].ending = sqlTxn[loc[p].txnId].ending
              /\ db' = db]_vars

\* a statement failed on a transaction that had a statement tracked before
C14_Witness ==
  \E p \in Procs :
    /\ Answered(p, "executeQueryWrite")
    /\ ~loc[p].auto /\ loc[p].issued /\ ~loc[p].executed
    /\ loc[p].result = "EngineError"
    /\ txnOf(p).status = "open"

\* C15: once executeQueryWrite without a transactionId has returned or
\* thrown, the transaction it began is out of the registry, committed if the
\* call succeeded and rolled back if it failed.
C15_NoDanglingTemporary ==
  \A p \in Procs :
    Answered(p, "executeQueryWrite") /\ loc[p].auto /\ loc[p].txnId # 0 =>
      /\ loc[p].txnId \notin DOMAIN activeTransactions
      /\ txnOf(p).status = IF loc[p].result = "ok" THEN "committed" ELSE "rolledback"

\* C16: every call of a state-changing tool appends exactly one audit entry,
\* whose success flag is the outcome of the call.
C16_OneEntryPerCall ==
  \A p \in Procs :
    pc[p] = "returned"
      /\ loc[p].op \in {"executeQueryWrite", "begin", "commit", "rollback"} =>
        /\ Len(loc[p].entries) = 1
        /\ loc[p].entries[1] = (loc[p].result = "ok")

\* how often entry n occurs in a sequence of entries
Occ(entries, n) == Cardinality({i \in 1..Len(entries) : entries[i].seq = n})

InFlight(n) ==
  {<<b, i>> \in writing \X (1..MaxEntries) : i <= Len(b) /\ b[i].seq = n}

Durable(n) == Occ(logFile, n) >= 1

\* C17: AuditLogger.log never rejects, also when the write it waited for
\* failed: the failure is logged, the caller of log goes on as if it had not
\* happened.
C17_LogNeverRejects ==
  \A p \in Procs :
    pc[p] = "returned" /\ loc[p].op = "log" =>
      /\ loc[p].result = "ok"
      /\ Len(loc[p].entries) = 1

\* a log call that waited for a write that failed has returned
C17_Witness ==
  \E p \in Procs :
    pc[p] = "returned" /\ loc[p].op = "log" /\ loc[p].flushed = "failed"

\* C18: every entry passed to log is in exactly one place, the buffer, a batch
\* being written or the file, and a batch whose write failed goes back to the
\* front of the buffer.
C18_ExactlyOnePlace ==
  /\ [](\A n \in 1..MaxEntries :
          Occ(buffer, n) + Cardinality(InFlight(n)) + Occ(logFile, n)
            = IF n <= logged THEN 1 ELSE 0)
  /\ [][\A b \in writing :
          b \notin writing' /\ logFile' = logFile => buffer' = b \o buffer]_vars

\* a batch of bufferSize entries is back in the buffer after its write failed
C18_Witness ==
  /\ Len(buffer) >= bufferSize
  /\ \E p \in Procs : pc[p] = "returned" /\ loc[p].flushed = "failed"

\* C19 as stated: every entry passed to log is appended to the file in the
\* end, whether the flushes come from the timer, from the threshold or from
\* close.
C19_EventuallyDurable ==
  \A n \in 1..MaxEntries : (n <= logged) ~> Durable(n)

\* C19: as long as the timer stays armed (close is not called), every entry
\* passed to log is appended to the file in the end.
C19_DurableWhileArmed ==
  \A n \in 1..MaxEntries : (n <= logged) ~> (Durable(n) \/ ~flushInterval)

\* an entry whose batch failed once is in the file
C19_Witness ==
  /\ flushInterval
  /\ \E p \in Procs :
       /\ pc[p] = "returned" /\ loc[p].flushed = "failed"
       /\ \E n \in 1..MaxEntries : n <= logged /\ Durable(n) /\ loc[p].entries # <<>>
       /\ logged = MaxEntries /\ \A n \in 1..MaxEntries : Durable(n)

C21_PruneKeepsLatest ==
  [][\A p \in Procs :
       /\ pc[p] \in {"saveVersion_insert", "saveVersion_cleanup"} /\ pc'[p] # pc[p] =>
            \A other \in VersionedNames \ {loc[p].name} :
              RowsOf(SPVersionHistory', "dbo", other) = RowsOf(SPVersionHistory, "dbo", other)
       /\ pc[p] = "saveVersion_cleanup" /\ Finished(p, "saveVersion")' /\ loc'[p].result = "ok" =>
            LET L == loc[p]
                kept == RowsOf(SPVersionHistory', L.schema, L.name)
                had == VersionsOf(SPVersionHistory, L.schema, L.name)
                has == VersionsOf(SPVersionHistory', L.schema, L.name)
            IN /\ Len(kept) <= maxVersions
               /\ L.nextVersion \in has
               /\ has \subseteq had
               /\ \A v \in had \ has : \A w \in has : v < w]_vars

\* a statement holds the keyword as whole words, in any letter case
HasKeyword(sql, keyword) ==
  \E i \in 1..Len(sql) :
    /\ i + Len(keyword) - 1 <= Len(sql)
    /\ \A k \in 1..Len(keyword) : Upper(sql[i + k - 1]) = Upper(keyword[k])

\* C22: for every statement that holds a configured denied keyword as a whole
\* word, in any letter case, validate returns valid = false and its reasons
\* contain 'Blocked keyword found: <keyword>' with that keyword.
C22_BlockedKeywordNamed ==
  \A p \in Procs : \A i \in 1..Len(Keywords) :
    pc[p] = "validated" /\ HasKeyword(loc[p].query, Keywords[i]) =>
      /\ loc[p].rejected
      /\ \E j \in 1..Len(loc[p].reasons) :
           loc[p].reasons[j] = <<"Blocked keyword found", Keywords[i]>>

\* the first word of a statement after the white space that leads it, in
\* upper case; "" when there is none
LeadingWord(sql) ==
  LET words == {i \in 1..Len(sql) : sql[i] # "NL"}
  IN IF words = {} THEN ""
     ELSE Upper(sql[CHOOSE i \in words : \A j \in words : i <= j])

C24_AmbiguousIsWrite ==
  \A p \in Procs :
    pc[p] = "classified" =>
      LET sql == loc[p].query
      IN \/ LeadingWord(sql) \in {"WITH", "EXEC"}
         \/ /\ LeadingWord(sql) = "--"
            /\ LeadingWord(StripComments(sql, FALSE)) \in writeKeywords
         => loc[p].write

\* C25: validate returns a result for every input and never throws; for the
\* empty string the result is valid = false with a reason.
C25_EmptyIsInvalid ==
  \A p \in Procs :
    pc[p] = "validated" /\ loc[p].query = <<>> =>
      loc[p].rejected /\ loc[p].reasons # <<>>

\* the statement, its comments aside, starts with the defining keywords
Recognisable(definition) ==
  LET s == StripComments(definition, FALSE)
  IN Len(s) >= 2 /\ Upper(s[1]) \in {"CREATE", "ALTER"} /\ Upper(s[2]) = "PROCEDURE"

\* C26: when validate rejects the definition, or the definition does not start
\* with the keywords of a routine definition, createDraft fails, nothing of
\* the definition reaches the database and an existing draft of that name
\* stays as it was.
C26_RejectedDraftUntouched ==
  \A p \in Procs :
    /\ Finished(p, "createDraft")
    /\ ~validate(loc[p].definition).valid \/ ~Recognisable(loc[p].definition)
    => /\ loc[p].result \in {"ValidationError", "EngineError"}
       /\ db = loc[p].preDb

\* C27: deployDraft called when the routine has no draft fails with NotFound
\* before any side effect: it saves no snapshot, begins no transaction and
\* leaves every routine as it was.
C27_NoDraftNoEffect ==
  \A p \in Procs :
    Finished(p, "deployDraft") /\ loc[p].preDb[draft(p)] = NULL =>
      /\ loc[p].result = "NotFound"
      /\ SPVersionHistory = loc[p].preRows
      /\ loc[p].txnId = 0
      /\ db = loc[p].preDb

\* a second deployDraft of a deployed routine: production exists, so a
\* snapshot would have been due, and the draft is gone
C27_Witness ==
  \E p \in Procs :
    /\ Finished(p, "deployDraft") /\ loc[p].result = "NotFound"
    /\ loc[p].preDb[draft(p)] = NULL
    /\ loc[p].preDb[prod(p)] # NULL

\* C28: when the routine has no snapshot, also when the version table was
\* never created, the version store behaves as an empty one: rollback fails
\* with NotFound and changes no routine, and listVersions returns the empty
\* list.  A failure of the database itself is set aside where the table exists.
C28_NoSnapshotIsEmpty ==
  \A p \in Procs :
    RowsOf(loc[p].preRows, loc[p].schema, loc[p].name) = <<>> =>
      /\ Finished(p, "rollback") =>
           /\ db = loc[p].preDb
           /\ loc[p].result = "NotFound" \/ (tableExists /\ loc[p].result = "EngineError")
      /\ Finished(p, "listVersions") =>
           \/ loc[p].result = "ok" /\ loc[p].versions = <<>>
           \/ tableExists /\ loc[p].result = "EngineError"

\* C29: a routine name has at most one draft (the catalog holds one object
\* per name), and a createDraft that succeeds for a name that has a draft
\* replaces it: afterwards the draft is the definition just submitted.
C29_DraftReplaced ==
  \A p \in Procs :
    /\ Finished(p, "createDraft") /\ loc[p].result = "ok"
    /\ loc[p].preDb[draft(p)] # NULL
    => db[draft(p)] = rewriteForDraftSchema(loc[p].definition, loc[p].schema, loc[p].name)

\* C30: rollback, whether it succeeds or fails, adds no snapshot, deletes
\* none and leaves every draft as it was: only the production definition of
\* the routine may differ afterwards.
C30_RollbackFrame ==
  \A p \in Procs :
    Finished(p, "rollback") =>
      /\ SPVersionHistory = loc[p].preRows
      /\ \A name \in Names : db[draftKey(name)] = loc[p].preDb[draftKey(name)]
      /\ \A k \in Keys : k # prod(p) => db[k] = loc[p].preDb[k]

\* a rollback that found its snapshot and went through its transaction, with
\* a draft of the routine in place
C30_Witness ==
  \E p \in Procs :
    /\ Finished(p, "rollback")
    /\ loc[p].versionToRestore # NoRow
    /\ loc[p].txnId # 0
    /\ loc[p].preRows # <<>>
    /\ loc[p].preDb[draft(p)] # NULL

\* C31: a deployDraft that fails leaves the version history as it was before
\* the call: it adds no snapshot and prunes none.
C31_FailedDeployKeepsHistory ==
  \A p \in Procs :
    Finished(p, "deployDraft") /\ loc[p].result # "ok" =>
      SPVersionHistory = loc[p].preRows

\* an execute of caller p on transaction id has just been answered
ExecuteAnswered(p, id) ==
  pc[p] = "execute" /\ pc'[p] = "done" /\ loc[p].txnId = id

\* C32, as stated: the list recorded for a transaction is the sequence of
\* the texts passed to execute for its id, so every answered execute has
\* added its text at the end of the list.
C32_EveryPassedRecorded ==
  [][\A p \in Procs : \A id \in Ids :
       ExecuteAnswered(p, id) =>
         /\ id \in DOMAIN activeTransactions'
         /\ id \in DOMAIN activeTransactions
         /\ activeTransactions'[id].queries =
              Append(activeTransactions[id].queries, loc[p].query)]_vars

\* C32, amended: the list recorded for a transaction is the sequence of the
\* texts of the statements that execute carried out successfully, in the
\* order of their completion; a statement that failed or that the driver
\* refused is not recorded.  The driver has at most one statement of a
\* transaction in hand, so the engine gets them in the order of submission.
C32_RecordedInOrder ==
  /\ [](\A id \in Ids :
          Cardinality({p \in Procs : pc[p] = "execute" /\ loc[p].txnId = id
                                       /\ ~loc[p].rejected}) <= 1)
  /\ [][\A id \in DOMAIN activeTransactions :
          id \in DOMAIN activeTransactions' =>
            IF \E p \in Procs : ExecuteAnswered(p, id) /\ loc'[p].result = "ok"
            THEN \E p \in Procs :
                   /\ ExecuteAnswered(p, id)
                   /\ activeTransactions'[id].queries =
                        Append(activeTransactions[id].queries, loc[p].query)
            ELSE activeTransactions'[id].queries = activeTransactions[id].queries]_vars

\* two statements of different texts recorded in the order they were executed
C32_Witness ==
  \E p \in Procs :
    /\ Finished(p, "execute") /\ loc[p].result = "ok"
    /\ loc[p].query = <<"UPDATE", "t">>
    /\ loc[p].txnId \in DOMAIN activeTransactions
    /\ activeTransactions[loc[p].txnId].queries = <<QryInsert, <<"UPDATE", "t">> >>

\* an execute on transaction id that the driver accepted is still unanswered
StatementInFlight(id) ==
  \E p \in Procs : pc[p] = "execute" /\ loc[p].txnId = id /\ ~loc[p].rejected

Touched(id) ==
  \/ (id \in DOMAIN activeTransactions) # (id \in DOMAIN activeTransactions')
  \/ /\ id \in DOMAIN activeTransactions
     /\ id \in DOMAIN activeTransactions'
     /\ activeTransactions[id] # activeTransactions'[id]
  \/ sqlTxn[id] # sqlTxn'[id]

\* the sweep has looked at transaction id and found it older than the ceiling
PastCeiling(id) ==
  /\ id \in DOMAIN activeTransactions
  /\ now - activeTransactions[id].startTime > TRANSACTION_TIMEOUT

\* C34: once the rollbacks of a sweep tick are answered, every transaction the
\* tick found older than the ceiling is rolled back and out of the registry;
\* the sweep touches no transaction of age at most the ceiling; and a step of
\* execute, commit, rollback or the forced rollback on one id changes the
\* entry and the state of no other transaction.
C34_SweepExact ==
  /\ [](forced = {} => \A id \in Ids : ~PastCeiling(id))
  /\ [][/\ \A id \in Ids :
            Touched(id) /\ (now' # now \/ id \in forced) /\ UNCHANGED <<pc>>
              => id \in DOMAIN activeTransactions
                 /\ now' - activeTransactions[id].startTime > TRANSACTION_TIMEOUT
        /\ now' = now => \A i, j \in Ids : Touched(i) /\ Touched(j) => i = j
        /\ \A p \in Procs, id \in Ids :
            pc'[p] # pc[p] /\ Touched(id) /\ pc[p] # "begin" => id = loc'[p].txnId]_vars

\* C35: every id returned by begin differs from every id returned before and
\* from every id in the registry, so no begin replaces an entry, and a begin
\* that fails leaves the registry as it was.  (No transaction ends here, so
\* the registry holds one entry per transaction begun.)
C35_IdsUnique ==
  /\ [](Cardinality(DOMAIN activeTransactions) = nextId - 1)
  /\ [][\A p \in Procs :
          pc[p] = "begin_transaction" /\ pc'[p] = "done" =>
            IF loc'[p].result = "ok"
            THEN loc[p].txnId \notin DOMAIN activeTransactions
            ELSE activeTransactions' = activeTransactions]_vars

\* C36: a rollback called with version v, 0 included, restores the definition
\* stored as version v when it succeeds, and when the routine had no snapshot
\* numbered v it fails with NotFound and changes no routine.  A failure of
\* the database itself is set aside where the version table exists.
C36_ExplicitVersion ==
  \A p \in Procs :
    Finished(p, "rollback") =>
      LET stored == getVersion(loc[p].preRows, loc[p].schema, loc[p].name, loc[p].version)
      IN IF stored = {}
         THEN /\ db = loc[p].preDb
              /\ \/ loc[p].result = "NotFound"
                 \/ tableExists /\ loc[p].fault /\ loc[p].txnId = 0
         ELSE loc[p].result = "ok" =>
                \E row \in stored : db[prod(p)] = row.Definition

\* C37: whenever deployDraft throws, at whichever step, the production
\* definition equals its value before the call, and when a step of the try
\* block failed the error thrown is the error of that step, not one raised
\* by the rollback of the catch block.
C37_FailureMeansUnchanged ==
  \A p \in Procs :
    Finished(p, "deployDraft") /\ loc[p].result # "ok" =>
      /\ db[prod(p)] = loc[p].preDb[prod(p)]
      /\ loc[p].failedAt # "none" => loc[p].result = loc[p].error

\* C38: the entries of the audit log file stand in the order in which log()
\* was called, however timer flushes, threshold flushes and retried flushes
\* interleave.
C38_LogInCallOrder ==
  \A i, j \in 1..Len(logFile) : i < j => logFile[i].seq < logFile[j].seq

\* C39: when the last deployDraft or rollback of a routine succeeded, a read
\* of the routine through the virtual filesystem returns the production
\* definition that call installed, not one cached earlier.
C39_ReadSeesDeployed ==
  \A p \in Procs :
    (/\ Finished(p, "readFile")
     /\ loc[p].result = "ok"
     /\ log # <<>>
     /\ log[Len(log)].result = "ok")
    => loc[p].definition = log[Len(log)].after

====
